---- MODULE Spec2Model ----
(***************************************************************************)
(* A model of resume-parser-ai: the normalizer of ResumeParser, the two    *)
(* AI extractors, ResumeParser.parse and the batch driver of the CLI.      *)
(*                                                                         *)
(* JSON / Python values are tagged pairs <<tag, payload>>; the tags are:    *)
(*   null, bool, num, str (a sequence of one-character strings), list (a   *)
(*   sequence of values), dict (a sequence of <<key, value>> pairs in      *)
(*   insertion order, keys unique).  A raised exception is the value       *)
(*   <<"raise", <<class name, message parts...>> >>.                       *)
(***************************************************************************)
EXTENDS Integers, Sequences, FiniteSets, TLC

VARIABLES
    data,          \* the argument of _normalize_output
    normalized,    \* what _normalize_output(data) gave (a record or a raise)
    renormalized,  \* what _normalize_output(normalized) gave
    npc,           \* "start" | "normalized" | "renormalized"
    world,         \* the arguments and the environment of one ResumeParser run
    extractor,     \* ResumeParser.ai_extractor (or the raise of the constructor)
    ppc,           \* where the run is: "new" | "constructed" | "have_text" | "probed"
                   \*   | "extracted" | "done"
    resume_text,   \* the text PDFExtractor.extract_text returned
    net,           \* the requests sent to the provider so far, in order
    json_text,     \* the text handed to json.loads
    extracted,     \* what AIExtractor.extract gave (a value or a raise)
    result,        \* what the run gave (a normalized record or a raise)
    argv,          \* parse_batch: the options, the environment and the directory
    bpc,           \* parse_batch: "start" | "loop" | "exited"
    parser,        \* parse_batch: the extractor of its ResumeParser
    pdf_files,     \* parse_batch: list(directory.glob("*.pdf"))
    idx,           \* parse_batch: the 1-based position of the loop in pdf_files
    successful,    \* parse_batch: the counter of the files saved
    failed,        \* parse_batch: the counter of the files that raised
    attempted,     \* the names of the files handed to parser.parse, in order
    outcomes,      \* what parser.parse gave for each of them (a record or a raise)
    written,       \* the names of the output files written, in order
    exit_status,   \* the exit status of the process, Unset while it runs
    cpc,           \* cli parse: "start" | "running" | "exited"
    echoed,        \* cli parse: the messages echoed to the error stream, in order
    cli_written,   \* cli parse: the path of the result file written, Unset when none
    cli_status,    \* cli parse: the exit status of the process, Unset while it runs
    pdf,           \* the file handed to PDFExtractor.extract_text
    text_out,      \* what extract_text gave for it (a text or a raise)
    reply_text,    \* the argument of _extract_json_from_response
    fence_out,     \* what _extract_json_from_response gave for it
    raw_text,      \* the argument of _clean_text
    cleaned,       \* _clean_text(raw_text)
    recleaned      \* _clean_text(cleaned)

normVars == <<data, normalized, renormalized, npc>>
parseVars == <<world, extractor, ppc, resume_text, net, json_text, extracted, result>>
batchVars ==
    <<argv, bpc, parser, pdf_files, idx, successful, failed, attempted, outcomes, written,
      exit_status>>
cliVars == <<cpc, echoed, cli_written, cli_status>>
fnVars == <<pdf, text_out, reply_text, fence_out, raw_text, cleaned, recleaned>>
vars == <<normVars, parseVars, batchVars, cliVars, fnVars>>

----------------------------------------------------------------------------
(* Bounds of the model *)

MaxStrLen == 2
MaxListLen == 2
MaxPages == 2
MaxFiles == 2
MaxTokens == 4
MaxTextLen == 5

----------------------------------------------------------------------------
(* Values *)

Tag(x) == x[1]
Val(x) == x[2]

Null == <<"null", <<>> >>
B(b) == <<"bool", b>>
N(n) == <<"num", n>>
S(s) == <<"str", s>>
L(s) == <<"list", s>>
D(s) == <<"dict", s>>
Unset == <<"unset", <<>> >>
\* a key or a field that is not there
Absent == <<"absent", <<>> >>
Raise(cls, msg) == <<"raise", <<cls>> \o msg>>

IsStr(x) == Tag(x) = "str"
IsList(x) == Tag(x) = "list"
IsDict(x) == Tag(x) = "dict"
IsRaise(x) == Tag(x) = "raise"

EmptyStr == S(<<>>)

\* Python truthiness: bool(x)
Truthy(x) ==
    CASE Tag(x) = "null" -> FALSE
      [] Tag(x) = "bool" -> Val(x)
      [] Tag(x) = "num" -> Val(x) # 0
      [] OTHER -> Len(Val(x)) > 0

\* key in d
HasKey(d, k) == \E i \in 1..Len(Val(d)) : Val(d)[i][1] = k

\* d.get(k, default)
Get(d, k, default) ==
    IF HasKey(d, k)
    THEN Val(d)[CHOOSE i \in 1..Len(Val(d)) : Val(d)[i][1] = k][2]
    ELSE default

\* d.keys() as a sequence
Keys(d) == [i \in 1..Len(Val(d)) |-> Val(d)[i][1]]

\* the first raise of a sequence of values, if any
FirstRaise(s) == s[CHOOSE i \in 1..Len(s) : IsRaise(s[i]) /\ \A j \in 1..(i-1) : ~IsRaise(s[j])]
AnyRaise(s) == \E i \in 1..Len(s) : IsRaise(s[i])

----------------------------------------------------------------------------
(* Strings: sequences of characters *)

UpperChars == <<"A","B","C","D","E","F","G","H","I","J","K","L","M",
                "N","O","P","Q","R","S","T","U","V","W","X","Y","Z">>
LowerChars == <<"a","b","c","d","e","f","g","h","i","j","k","l","m",
                "n","o","p","q","r","s","t","u","v","w","x","y","z">>

LowerChar(c) ==
    IF \E i \in 1..Len(UpperChars) : UpperChars[i] = c
    THEN LowerChars[CHOOSE i \in 1..Len(UpperChars) : UpperChars[i] = c]
    ELSE c

\* str.lower()
Lower(s) == [i \in 1..Len(s) |-> LowerChar(s[i])]

\* the characters str.strip() removes
Whitespace == {" ", "\t", "\n", "\r", "\f"}

\* the least element of a non-empty set of integers
Least(I) == CHOOSE i \in I : \A j \in I : i <= j

\* the positions of s, from position `from` on, whose character is not in cs
Others(s, from, cs) == {i \in from..Len(s) : s[i] \notin cs}

\* the first position >= from of s whose character is not in cs, or Len(s) + 1
FirstOther(s, from, cs) ==
    IF Others(s, from, cs) # {} THEN Least(Others(s, from, cs))
    ELSE IF from > Len(s) THEN from ELSE Len(s) + 1

LStrip(s) == SubSeq(s, FirstOther(s, 1, Whitespace), Len(s))

RStrip(s) ==
    LET kept == Others(s, 1, Whitespace)
    IN IF kept = {} THEN <<>> ELSE SubSeq(s, 1, CHOOSE i \in kept : \A j \in kept : i >= j)

\* str.strip()
Strip(s) == RStrip(LStrip(s))

\* "sep".join(parts)
RECURSIVE Join(_, _)
Join(sep, parts) ==
    IF parts = <<>> THEN <<>>
    ELSE IF Len(parts) = 1 THEN parts[1]
    ELSE parts[1] \o sep \o Join(sep, Tail(parts))

RECURSIVE Digits(_)
Digits(n) ==
    LET d == <<"0","1","2","3","4","5","6","7","8","9">>[(n % 10) + 1]
    IN IF n < 10 THEN <<d>> ELSE Digits(n \div 10) \o <<d>>

\* the dict keys the model uses, with their characters
KeyTable ==
    << <<"name", <<"n","a","m","e">> >>,
       <<"label", <<"l","a","b","e","l">> >>,
       <<"x", <<"x">> >>,
       <<"a", <<"a">> >>,
       <<"user_info", <<"u","s","e","r","_","i","n","f","o">> >>,
       <<"personal_info", <<"p","e","r","s","o","n","a","l","_","i","n","f","o">> >>,
       <<"skills", <<"s","k","i","l","l","s">> >>,
       <<"addresses", <<"a","d","d","r","e","s","s","e","s">> >>,
       <<"type", <<"t","y","p","e">> >> >>

KeyChars(k) ==
    IF \E i \in 1..Len(KeyTable) : KeyTable[i][1] = k
    THEN KeyTable[CHOOSE i \in 1..Len(KeyTable) : KeyTable[i][1] = k][2]
    ELSE <<"k">>

\* the key a JSON object member's characters denote
KeyName(chars) ==
    IF \E i \in 1..Len(KeyTable) : KeyTable[i][2] = chars
    THEN KeyTable[CHOOSE i \in 1..Len(KeyTable) : KeyTable[i][2] = chars][1]
    ELSE "other_key"

\* repr(x) / str(x) of a value
RECURSIVE PyRepr(_)
PyRepr(x) ==
    CASE Tag(x) = "null" -> <<"N","o","n","e">>
      [] Tag(x) = "bool" -> IF Val(x) THEN <<"T","r","u","e">> ELSE <<"F","a","l","s","e">>
      [] Tag(x) = "num" -> IF Val(x) < 0 THEN <<"-">> \o Digits(0 - Val(x)) ELSE Digits(Val(x))
      [] Tag(x) = "str" -> <<"'">> \o Val(x) \o <<"'">>
      [] Tag(x) = "list" ->
            <<"[">> \o Join(<<",", " ">>, [i \in 1..Len(Val(x)) |-> PyRepr(Val(x)[i])]) \o <<"]">>
      [] OTHER ->
            <<"{">> \o Join(<<",", " ">>,
                [i \in 1..Len(Val(x)) |->
                    <<"'">> \o KeyChars(Val(x)[i][1]) \o <<"'", ":", " ">> \o PyRepr(Val(x)[i][2])])
            \o <<"}">>

PyStr(x) == IF IsStr(x) THEN Val(x) ELSE PyRepr(x)

----------------------------------------------------------------------------
(* Python text operations, with Python's 0-based positions *)

Min(a, b) == IF a < b THEN a ELSE b
Max(a, b) == IF a > b THEN a ELSE b

\* s[a:b] for 0 <= a, b
Slice(s, a, b) == SubSeq(s, Min(a, Len(s)) + 1, Min(b, Len(s)))

\* sub occurs in s at 0-based position i
OccursAt(s, sub, i) == i + Len(sub) <= Len(s) /\ SubSeq(s, i + 1, i + Len(sub)) = sub

\* s.find(sub, start): the lowest position >= start, or -1
Find(s, sub, start) ==
    LET hits == {i \in start..Len(s) : OccursAt(s, sub, i)}
    IN IF hits = {} THEN -1 ELSE CHOOSE i \in hits : \A j \in hits : i <= j

\* s.rfind(sub): the highest position, or -1
RFind(s, sub) ==
    LET hits == {i \in 0..Len(s) : OccursAt(s, sub, i)}
    IN IF hits = {} THEN -1 ELSE CHOOSE i \in hits : \A j \in hits : i >= j

\* sub in s
Contains(s, sub) == Find(s, sub, 0) # -1

----------------------------------------------------------------------------
(* json.loads on the JSON texts of the model: objects, arrays, strings without    *)
(* escapes, integers, true / false / null.  ParseValue(s, i) parses one value at   *)
(* the 1-based position i and gives <<"ok", value, next position>> or <<"err">>.   *)

JsonWs == {" ", "\t", "\n", "\r"}
DigitChars == <<"0","1","2","3","4","5","6","7","8","9">>
IsDigit(c) == \E i \in 1..10 : DigitChars[i] = c
DigitVal(c) == (CHOOSE i \in 1..10 : DigitChars[i] = c) - 1
JsonErr == <<"err">>

SkipWs(s, i) == FirstOther(s, i, JsonWs)

\* the position of the closing quote of the string that opens at i, or 0
StringEnd(s, j) ==
    LET stops == {i \in j..Len(s) : s[i] \in {"\"", "\\", "\n", "\t", "\r"}}
    IN IF stops = {} THEN 0
       ELSE IF s[Least(stops)] = "\"" THEN Least(stops)
       ELSE 0

NumberEnd(s, j) == FirstOther(s, j, {DigitChars[d] : d \in 1..10})

RECURSIVE NumberValue(_)
NumberValue(digits) ==
    IF digits = <<>> THEN 0
    ELSE 10 * NumberValue(SubSeq(digits, 1, Len(digits) - 1)) + DigitVal(digits[Len(digits)])

\* a later member with the same key replaces the value of the earlier one
DictPut(pairs, k, x) ==
    IF \E i \in 1..Len(pairs) : pairs[i][1] = k
    THEN [i \in 1..Len(pairs) |-> IF pairs[i][1] = k THEN <<k, x>> ELSE pairs[i]]
    ELSE Append(pairs, <<k, x>>)

RECURSIVE ParseValue(_, _)
RECURSIVE ParseMembers(_, _, _)
RECURSIVE ParseElements(_, _, _)

\* after "{" or ",": "key" : value, then "," or "}"
ParseMembers(s, i0, acc) ==
    LET i == SkipWs(s, i0)
    IN IF i > Len(s) \/ s[i] # "\"" THEN JsonErr
       ELSE LET e == StringEnd(s, i + 1)
            IN IF e = 0 THEN JsonErr
               ELSE LET c == SkipWs(s, e + 1)
                    IN IF c > Len(s) \/ s[c] # ":" THEN JsonErr
                       ELSE LET r == ParseValue(s, SkipWs(s, c + 1))
                            IN IF r[1] = "err" THEN JsonErr
                               ELSE LET n == SkipWs(s, r[3])
                                        acc2 == DictPut(acc, KeyName(SubSeq(s, i + 1, e - 1)), r[2])
                                    IN IF n > Len(s) THEN JsonErr
                                       ELSE IF s[n] = "}" THEN <<"ok", D(acc2), n + 1>>
                                       ELSE IF s[n] = "," THEN ParseMembers(s, n + 1, acc2)
                                       ELSE JsonErr

\* after "[" or ",": value, then "," or "]"
ParseElements(s, i0, acc) ==
    LET r == ParseValue(s, SkipWs(s, i0))
    IN IF r[1] = "err" THEN JsonErr
       ELSE LET n == SkipWs(s, r[3])
            IN IF n > Len(s) THEN JsonErr
               ELSE IF s[n] = "]" THEN <<"ok", L(Append(acc, r[2])), n + 1>>
               ELSE IF s[n] = "," THEN ParseElements(s, n + 1, Append(acc, r[2]))
               ELSE JsonErr

ParseValue(s, i) ==
    IF i > Len(s) THEN JsonErr
    ELSE IF s[i] = "{" THEN
        LET j == SkipWs(s, i + 1)
        IN IF j <= Len(s) /\ s[j] = "}" THEN <<"ok", D(<<>>), j + 1>>
           ELSE ParseMembers(s, i + 1, <<>>)
    ELSE IF s[i] = "[" THEN
        LET j == SkipWs(s, i + 1)
        IN IF j <= Len(s) /\ s[j] = "]" THEN <<"ok", L(<<>>), j + 1>>
           ELSE ParseElements(s, i + 1, <<>>)
    ELSE IF s[i] = "\"" THEN
        LET e == StringEnd(s, i + 1)
        IN IF e = 0 THEN JsonErr ELSE <<"ok", S(SubSeq(s, i + 1, e - 1)), e + 1>>
    ELSE IF IsDigit(s[i]) THEN
        LET e == IF s[i] = "0" THEN i + 1 ELSE NumberEnd(s, i)
        IN <<"ok", N(NumberValue(SubSeq(s, i, e - 1))), e>>
    ELSE IF s[i] = "-" THEN
        IF i + 1 > Len(s) \/ ~IsDigit(s[i + 1]) THEN JsonErr
        ELSE LET e == IF s[i + 1] = "0" THEN i + 2 ELSE NumberEnd(s, i + 1)
             IN <<"ok", N(0 - NumberValue(SubSeq(s, i + 1, e - 1))), e>>
    ELSE IF OccursAt(s, <<"t","r","u","e">>, i - 1) THEN <<"ok", B(TRUE), i + 4>>
    ELSE IF OccursAt(s, <<"f","a","l","s","e">>, i - 1) THEN <<"ok", B(FALSE), i + 5>>
    ELSE IF OccursAt(s, <<"n","u","l","l">>, i - 1) THEN <<"ok", Null, i + 4>>
    ELSE JsonErr

\* json.loads(s): one value, whitespace around it, and nothing else; a raise of
\* json.JSONDecodeError otherwise
JSONDecodeError == Raise("JSONDecodeError", <<"Expecting value or extra data">>)

JsonLoads(s) ==
    LET r == ParseValue(s, SkipWs(s, 1))
    IN IF r[1] = "err" THEN JSONDecodeError
       ELSE IF SkipWs(s, r[3]) # Len(s) + 1 THEN JSONDecodeError
       ELSE r[2]

----------------------------------------------------------------------------
(* OllamaExtractor._extract_json_from_response (src/src/ai_extractor/ollama_extractor.py) *)

\* the backquote character (SANY does not read a backquote inside a string)
Backquote == "BACKQUOTE"

Fence == <<Backquote, Backquote, Backquote>>
FenceJson == Fence \o <<"j", "s", "o", "n">>

\* the span from the first "{" to the last "}", or the stripped text
BraceSpan(response_text) ==
    LET start == Find(response_text, <<"{">>, 0)
        end == RFind(response_text, <<"}">>) + 1
    IN IF start # -1 /\ end > start THEN Slice(response_text, start, end)
       ELSE Strip(response_text)

\* the text between the fence that opens at open_at (opener characters long) and
\* the next fence, or the brace span when the fence is not closed
Fenced(response_text, open_at, opener) ==
    LET start == open_at + opener
        end == Find(response_text, Fence, start)
    IN IF end # -1 THEN Strip(Slice(response_text, start, end))
       ELSE BraceSpan(response_text)

\* a variant that opens at the first fence whatever its tag
_extract_json_from_response_FirstFence(response_text) ==
    IF Contains(response_text, Fence)
    THEN Fenced(response_text, Find(response_text, Fence, 0),
                IF OccursAt(response_text, FenceJson, Find(response_text, Fence, 0))
                THEN 7 ELSE 3)
    ELSE BraceSpan(response_text)

_extract_json_from_response(response_text) ==
    IF Contains(response_text, FenceJson)
    THEN Fenced(response_text, Find(response_text, FenceJson, 0), 7)
    ELSE IF Contains(response_text, Fence)
    THEN Fenced(response_text, Find(response_text, Fence, 0), 3)
    ELSE BraceSpan(response_text)

----------------------------------------------------------------------------
(* PDFExtractor (src/src/pdf_extractor.py) *)

\* the length of the run of characters of cs that s starts with
\* the length of the run of characters of cs that s begins with
RunLen(s, cs) == FirstOther(s, 1, cs) - 1

\* the length of the part of s before its first character of cs
Before(s, cs) ==
    LET hits == {i \in 1..Len(s) : s[i] \in cs}
    IN IF hits = {} THEN Len(s) ELSE Least(hits) - 1

Drop(s, n) == SubSeq(s, n + 1, Len(s))

\* re.sub(r'\n{3,}', '\n\n', text)
RECURSIVE CollapseNewlines(_)
CollapseNewlines(text) ==
    IF text = <<>> THEN <<>>
    ELSE LET r == RunLen(text, {"\n"})
         IN IF r >= 3 THEN <<"\n", "\n">> \o CollapseNewlines(Drop(text, r))
            ELSE IF r >= 1 THEN SubSeq(text, 1, r) \o CollapseNewlines(Drop(text, r))
            ELSE SubSeq(text, 1, Before(text, {"\n"}))
                 \o CollapseNewlines(Drop(text, Before(text, {"\n"})))

\* re.sub(r'[ \t]+', ' ', text)
RECURSIVE CollapseSpaces(_)
CollapseSpaces(text) ==
    IF text = <<>> THEN <<>>
    ELSE LET r == RunLen(text, {" ", "\t"})
         IN IF r >= 1 THEN <<" ">> \o CollapseSpaces(Drop(text, r))
            ELSE SubSeq(text, 1, Before(text, {" ", "\t"}))
                 \o CollapseSpaces(Drop(text, Before(text, {" ", "\t"})))

\* text.split('\n')
RECURSIVE SplitLines(_)
SplitLines(text) ==
    LET n == Find(text, <<"\n">>, 0)
    IN IF n = -1 THEN <<text>>
       ELSE <<SubSeq(text, 1, n)>> \o SplitLines(Drop(text, n + 1))

\* the loop over the lines: an empty line is kept only after a line that is not empty
RECURSIVE DropRepeatedEmpty(_, _)
DropRepeatedEmpty(lines, prev_empty) ==
    IF lines = <<>> THEN <<>>
    ELSE IF Head(lines) # <<>> THEN <<Head(lines)>> \o DropRepeatedEmpty(Tail(lines), FALSE)
    ELSE IF ~prev_empty THEN << <<>> >> \o DropRepeatedEmpty(Tail(lines), TRUE)
    ELSE DropRepeatedEmpty(Tail(lines), prev_empty)

\* a variant that forgets to strip the lines
_clean_text_NoLineStrip(text) ==
    LET t1 == CollapseNewlines(text)
        t2 == CollapseSpaces(t1)
        lines == SplitLines(t2)
        cleaned_lines == DropRepeatedEmpty(lines, FALSE)
    IN Strip(Join(<<"\n">>, cleaned_lines))

_clean_text(text) ==
    LET t1 == CollapseNewlines(text)
        t2 == CollapseSpaces(t1)
        split == SplitLines(t2)
        lines == [i \in 1..Len(split) |-> Strip(split[i])]
        cleaned_lines == DropRepeatedEmpty(lines, FALSE)
    IN Strip(Join(<<"\n">>, cleaned_lines))

----------------------------------------------------------------------------
(* ResumeParser._normalize_* (src/src/parser.py) *)

AttributeError(what) == Raise("AttributeError", <<what>>)

\* x.get(k, "") or ""
OrEmpty(x) == IF Truthy(x) THEN x ELSE EmptyStr

\* (x.get(k) or "").lower()
LowerOrEmpty(x) ==
    LET y == OrEmpty(x)
    IN IF IsStr(y) THEN S(Lower(Val(y))) ELSE AttributeError("lower")

\* a dict literal whose values are evaluated in order: the first raise wins
MkDict(pairs) ==
    LET vals == [i \in 1..Len(pairs) |-> pairs[i][2]]
    IN IF AnyRaise(vals) THEN FirstRaise(vals) ELSE D(pairs)

\* a list built by a loop over the kept elements: the first raise wins
MkList(items) == IF AnyRaise(items) THEN FirstRaise(items) ELSE L(items)

_normalize_user_info(user_info) ==
    LET u == IF ~IsDict(user_info) THEN D(<<>>) ELSE user_info
    IN D(<< <<"name", OrEmpty(Get(u, "name", EmptyStr))>>,
            <<"date_of_birth", OrEmpty(Get(u, "date_of_birth", EmptyStr))>>,
            <<"gender", OrEmpty(Get(u, "gender", EmptyStr))>>,
            <<"email", OrEmpty(Get(u, "email", EmptyStr))>>,
            <<"phone_number", OrEmpty(Get(u, "phone_number", EmptyStr))>> >>)

NormAddress(address) ==
    MkDict(<< <<"type", LowerOrEmpty(Get(address, "type", Null))>>,
              <<"address", OrEmpty(Get(address, "address", EmptyStr))>>,
              <<"post_name", OrEmpty(Get(address, "post_name", EmptyStr))>>,
              <<"post_code", OrEmpty(Get(address, "post_code", EmptyStr))>> >>)

_normalize_addresses(addresses) ==
    LET a == IF ~IsList(addresses) THEN <<>> ELSE Val(addresses)
        kept == SelectSeq(a, IsDict)
    IN MkList([i \in 1..Len(kept) |-> NormAddress(kept[i])])

NormEducation(entry) ==
    MkDict(<< <<"levels", LowerOrEmpty(Get(entry, "levels", Null))>>,
              <<"subject", OrEmpty(Get(entry, "subject", EmptyStr))>>,
              <<"board", OrEmpty(Get(entry, "board", EmptyStr))>>,
              <<"institute", OrEmpty(Get(entry, "institute", EmptyStr))>>,
              <<"passing_year", OrEmpty(Get(entry, "passing_year", EmptyStr))>>,
              <<"result", OrEmpty(Get(entry, "result", EmptyStr))>> >>)

_normalize_academic_education(entries) ==
    LET e == IF ~IsList(entries) THEN <<>> ELSE Val(entries)
        kept == SelectSeq(e, IsDict)
    IN MkList([i \in 1..Len(kept) |-> NormEducation(kept[i])])

\* the affirmative strings of _normalize_employment
Affirmative == { <<"y","e","s">>, <<"t","r","u","e">>, <<"1">> }

\* a variant that forgets str.strip() and lower() before the membership test
CurrentlyWorking_NoFold(entry) ==
    LET cw == Get(entry, "currently_working", B(FALSE))
        c2 == IF IsStr(cw) THEN B(Val(cw) \in Affirmative) ELSE cw
    IN B(Truthy(c2))

CurrentlyWorking(entry) ==
    LET cw == Get(entry, "currently_working", B(FALSE))
        c2 == IF IsStr(cw) THEN B(Lower(Strip(Val(cw))) \in Affirmative) ELSE cw
    IN B(Truthy(c2))

NormEmployment(entry) ==
    D(<< <<"company_name", OrEmpty(Get(entry, "company_name", EmptyStr))>>,
         <<"company_type", OrEmpty(Get(entry, "company_type", EmptyStr))>>,
         <<"position", OrEmpty(Get(entry, "position", EmptyStr))>>,
         <<"joining_date", OrEmpty(Get(entry, "joining_date", EmptyStr))>>,
         <<"leaving_date", OrEmpty(Get(entry, "leaving_date", EmptyStr))>>,
         <<"currently_working", CurrentlyWorking(entry)>>,
         <<"responsibility", OrEmpty(Get(entry, "responsibility", EmptyStr))>> >>)

_normalize_employment(entries) ==
    LET e == IF ~IsList(entries) THEN <<>> ELSE Val(entries)
        kept == SelectSeq(e, IsDict)
    IN L([i \in 1..Len(kept) |-> NormEmployment(kept[i])])

\* values.extend(value) for every value of the mapping that is a list
RECURSIVE FlattenValues(_)
FlattenValues(pairs) ==
    IF pairs = <<>> THEN <<>>
    ELSE (IF IsList(pairs[1][2]) THEN Val(pairs[1][2]) ELSE <<>>) \o FlattenValues(Tail(pairs))

\* the loop of _normalize_skills over one element: the strings it appends
SkillOf(skill) ==
    IF IsStr(skill) THEN <<S(Strip(Val(skill)))>>
    ELSE IF IsDict(skill) /\ HasKey(skill, "name")
         THEN <<S(Strip(PyStr(OrEmpty(Get(skill, "name", Null)))))>>
         ELSE <<>>

RECURSIVE SkillsOf(_)
SkillsOf(skills) ==
    IF skills = <<>> THEN <<>> ELSE SkillOf(skills[1]) \o SkillsOf(Tail(skills))

\* a variant that keeps the strings that are empty after trimming
_normalize_skills_KeepEmpty(skills) ==
    LET s1 == IF IsDict(skills) THEN L(FlattenValues(Val(skills))) ELSE skills
        s2 == IF ~IsList(s1) THEN <<>> ELSE Val(s1)
    IN L(SkillsOf(s2))

_normalize_skills(skills) ==
    LET s1 == IF IsDict(skills) THEN L(FlattenValues(Val(skills))) ELSE skills
        s2 == IF ~IsList(s1) THEN <<>> ELSE Val(s1)
    IN L(SelectSeq(SkillsOf(s2), Truthy))

\* a variant that copies only the fields the input has
_normalize_output_PresentOnly(d) ==
    IF ~IsDict(d) THEN AttributeError("get")
    ELSE MkDict(SelectSeq(<<
        <<"user_info", _normalize_user_info(Get(d, "user_info", D(<<>>)))>>,
        <<"addresses", _normalize_addresses(Get(d, "addresses", L(<<>>)))>>,
        <<"academic_education",
            _normalize_academic_education(Get(d, "academic_education", L(<<>>)))>>,
        <<"employment", _normalize_employment(Get(d, "employment", L(<<>>)))>>,
        <<"skills", _normalize_skills(Get(d, "skills", L(<<>>)))>> >>,
        LAMBDA p : HasKey(d, p[1])))

_normalize_output(d) ==
    IF ~IsDict(d) THEN AttributeError("get")
    ELSE MkDict(<<
        <<"user_info", _normalize_user_info(Get(d, "user_info", D(<<>>)))>>,
        <<"addresses", _normalize_addresses(Get(d, "addresses", L(<<>>)))>>,
        <<"academic_education",
            _normalize_academic_education(Get(d, "academic_education", L(<<>>)))>>,
        <<"employment", _normalize_employment(Get(d, "employment", L(<<>>)))>>,
        <<"skills", _normalize_skills(Get(d, "skills", L(<<>>)))>> >>)

----------------------------------------------------------------------------
(* Exceptions.  A message is a sequence of items: the fixed phrases of the source,  *)
(* each one item spelled as in the source, and the interpolated values, spliced in  *)
(* as characters.  str(e) is the message.                                           *)

Msg(e) == Tail(Val(e))
Cls(e) == Head(Val(e))

----------------------------------------------------------------------------
(* PDFExtractor.extract_text (src/src/pdf_extractor.py) *)

\* Path(p).suffix of a bare file name
Suffix(path) ==
    LET dot == RFind(path, <<".">>)
    IN IF dot <= 0 THEN <<>> ELSE Drop(path, dot)

\* the page texts that are kept: if page_text: text_content.append(page_text)
RECURSIVE TextContent(_)
TextContent(pages) ==
    IF pages = <<>> THEN <<>>
    ELSE (IF Truthy(Head(pages)) THEN <<Val(Head(pages))>> ELSE <<>>) \o TextContent(Tail(pages))

\* "password" in str(e).lower() or "encrypted" in str(e).lower()
LooksProtected(msg) ==
    \/ Contains(Lower(msg), <<"p","a","s","s","w","o","r","d">>)
    \/ Contains(Lower(msg), <<"e","n","c","r","y","p","t","e","d">>)

\* the body of the try: the text, or what it raises
TryBody(f) ==
    IF f.open # "ok" THEN Raise(f.open, f.errmsg)
    ELSE LET text_content == TextContent(f.pages)
         IN IF text_content = <<>>
            THEN Raise("ValueError", <<"No text could be extracted from PDF: ">> \o f.path)
            ELSE S(_clean_text(Join(<<"\n", "\n">>, text_content)))

\* the except clauses of extract_text.  Matching the first clause evaluates the name
\* pdfplumber.PDFException, which raises AttributeError in a pdfplumber that does
\* not define it.
Handlers(f, e) ==
    IF ~f.has_PDFException
    THEN Raise("AttributeError", <<"module 'pdfplumber' has no attribute 'PDFException'">>)
    ELSE IF Cls(e) = "PDFException"
    THEN Raise("ValueError", <<"Error reading PDF file: ">> \o Msg(e))
    ELSE IF LooksProtected(Msg(e))
    THEN Raise("PermissionError", <<"PDF is password-protected: ">> \o f.path)
    ELSE Raise("ValueError", <<"Unexpected error extracting PDF: ">> \o Msg(e))

extract_text(f) ==
    IF ~f.exists THEN Raise("FileNotFoundError", <<"PDF file not found: ">> \o f.path)
    ELSE IF Lower(Suffix(f.path)) # <<".", "p", "d", "f">>
    THEN Raise("ValueError", <<"File is not a PDF: ">> \o f.path)
    ELSE LET r == TryBody(f)
         IN IF IsRaise(r) THEN Handlers(f, r) ELSE r

----------------------------------------------------------------------------
(* AIExtractorFactory.create and the constructors (src/src/ai_extractor) *)

OllamaName == <<"o","l","l","a","m","a">>
OpenAIName == <<"o","p","e","n","a","i">>
DefaultOllamaModel == S(<<"l","l","a","m","a","3">>)
DefaultOpenAIModel == S(<<"g","p","t","-","4","o","-","m","i","n","i">>)
DefaultBaseUrl == S(<<"http://localhost:11434">>)

\* os.getenv(name, default): the variable's value, or default when it is not set
GetEnv(value, default) == IF value = Null THEN default ELSE value

\* OllamaExtractor.__init__
OllamaExtractor(model, base_url) ==
    <<"object", [kind |-> "ollama", model |-> model, base_url |-> base_url, api_key |-> Null]>>

\* OpenAIExtractor.__init__.  OpenAI(api_key=None) finds no key in the environment
\* either (the factory has looked there); whether the SDK then raises is the SDK's
\* choice (w.sdk_rejects_missing_key).
OpenAIExtractor(api_key, model, w) ==
    IF api_key = Null /\ w.sdk_rejects_missing_key
    THEN Raise("OpenAIError", <<"The api_key client option must be set">>)
    ELSE <<"object", [kind |-> "openai", model |-> model, base_url |-> Null, api_key |-> api_key]>>

AIExtractorFactory_create(w) ==
    LET provider == Lower(w.provider)
    IN IF provider = OllamaName
       THEN OllamaExtractor(IF ~Truthy(w.model) THEN DefaultOllamaModel ELSE w.model,
                            IF Truthy(w.ollama_base_url) THEN w.ollama_base_url
                            ELSE GetEnv(w.env_base_url, DefaultBaseUrl))
       ELSE IF provider = OpenAIName
       THEN OpenAIExtractor(IF Truthy(w.api_key) THEN w.api_key ELSE GetEnv(w.env_api_key, Null),
                            IF ~Truthy(w.model) THEN DefaultOpenAIModel ELSE w.model, w)
       ELSE Raise("ValueError", <<"Unsupported provider: ">> \o provider
                                \o <<". Supported providers: ollama, openai">>)

----------------------------------------------------------------------------
(* OllamaExtractor.extract and OpenAIExtractor.extract *)

\* a variant that ignores the failure of client.list()
_check_server_health_Ignore(up, errmsg) == Null

\* _check_server_health: None, or the raise; up is whether client.list() answered
_check_server_health(up, errmsg) ==
    IF up THEN Null ELSE Raise("ConnectionError", <<"Cannot connect to Ollama server: ">> \o errmsg)

\* extract, lines 38-42: None when the probe passed, or the raise that ends the call
OllamaUnavailable(ex, health) ==
    IF IsRaise(health)
    THEN Raise("ConnectionError",
               <<"Ollama server not available at ">> \o Val(Val(ex).base_url) \o <<": ">>
               \o Msg(health))
    ELSE Null

\* response.get('message', {}).get('content', ''), with the fallback to
\* response.get('response', '')
OllamaResponseText(reply) ==
    LET content == IF reply.content = Absent THEN EmptyStr ELSE reply.content
    IN IF ~Truthy(content)
       THEN (IF reply.response = Absent THEN EmptyStr ELSE reply.response)
       ELSE content

\* the text OllamaExtractor.extract hands to json.loads
OllamaJsonText(reply) == _extract_json_from_response(Val(OllamaResponseText(reply)))

\* a variant that returns an empty mapping when the text does not decode
OllamaAfterChat_Swallow(reply) ==
    IF reply.raised THEN Raise("ValueError", <<"Error during extraction: ">> \o reply.errmsg)
    ELSE LET parsed_data == JsonLoads(OllamaJsonText(reply))
         IN IF IsRaise(parsed_data) THEN D(<<>>) ELSE parsed_data

\* extract from the reply of client.chat on: the value, or the raise
OllamaAfterChat(reply) ==
    IF reply.raised THEN Raise("ValueError", <<"Error during extraction: ">> \o reply.errmsg)
    ELSE LET parsed_data == JsonLoads(OllamaJsonText(reply))
         IN IF IsRaise(parsed_data)
            THEN Raise("ValueError",
                       <<"Failed to parse JSON from Ollama response: ">> \o Msg(parsed_data))
            ELSE parsed_data

\* a variant that takes only a missing key, not an empty one, as missing
KeyMissing_NoneOnly(ex) == Val(ex).api_key = Null

\* if not self.api_key
KeyMissing(ex) == ~Truthy(Val(ex).api_key)

OpenAIKeyRequired ==
    Raise("ValueError", <<"OpenAI API key is required. Set OPENAI_API_KEY environment variable or pass api_key parameter.">>)

\* extract from the reply of client.chat.completions.create on
OpenAIAfterCreate(reply) ==
    IF reply.raised
    THEN Raise("ValueError", <<"Error during OpenAI extraction: ">> \o reply.errmsg)
    ELSE IF reply.choices = <<>>
    THEN Raise("ValueError", <<"Error during OpenAI extraction: ", "list index out of range">>)
    ELSE IF ~IsStr(reply.choices[1])
    THEN Raise("ValueError", <<"Error during OpenAI extraction: ",
                               "the JSON object must be str, bytes or bytearray, not NoneType">>)
    ELSE LET parsed_data == JsonLoads(Val(reply.choices[1]))
         IN IF IsRaise(parsed_data)
            THEN Raise("ValueError",
                       <<"Failed to parse JSON from OpenAI response: ">> \o Msg(parsed_data))
            ELSE parsed_data

----------------------------------------------------------------------------
(* ResumeParser.parse (src/src/parser.py) *)

\* lines 52-64: the text of the PDF, or the raise
ParseText(f) ==
    IF ~f.exists THEN Raise("FileNotFoundError", <<"PDF file not found: ">> \o f.path)
    ELSE LET t == extract_text(f)
         IN IF IsRaise(t)
            THEN Raise("ValueError", <<"Failed to extract text from PDF: ">> \o Msg(t))
            ELSE IF ~Truthy(t) \/ Len(Strip(Val(t))) < 10
            THEN Raise("ValueError", <<"Insufficient text extracted from PDF: ">> \o f.path)
            ELSE t

\* lines 66-75: from the outcome of extract to the outcome of parse
ParseAfterExtract(x) ==
    IF IsRaise(x)
    THEN Raise("ValueError", <<"Failed to extract information using AI: ">> \o Msg(x))
    ELSE _normalize_output(x)

----------------------------------------------------------------------------
(* The inputs of the normalizer: what json.loads can hand to it *)

\* all sequences over A of length at most n
Seqs(A, n) == UNION {[1..k -> A] : k \in 0..n}

\* lists: every list of at most one element of full, and every list of 2..MaxListLen
\* elements of core
ListsOf(full, core) ==
    {<<>>} \cup {<<e>> : e \in full} \cup UNION {[1..k -> core] : k \in 2..MaxListLen}

\* a dict with one key
D1(k, x) == D(<< <<k, x>> >>)
D2(k1, x1, k2, x2) == D(<< <<k1, x1>>, <<k2, x2>> >>)

GenStrings == Seqs({" ", "a", "B"}, MaxStrLen)

\* values of every JSON type
ScalarPool ==
    {Null, B(TRUE), B(FALSE), N(0), N(5)} \cup {S(s) : s \in GenStrings}
    \cup {L(<<>>), L(<<N(1)>>), D(<<>>), D1("x", N(1))}

NonDicts == {Null, S(<<"a">>), N(1), L(<<>>)}

UserInfoPool ==
    {Null, S(<<"a">>), L(<<N(1)>>), D(<<>>)}
    \cup {D1("name", x) : x \in ScalarPool}
    \cup {D2("name", S(<<"a">>), "email", x) : x \in {Null, S(<<"B">>), N(0)}}
    \cup {D2("phone_number", N(5), "gender", x) : x \in {B(FALSE), S(<<"B">>)}}

AddrElems ==
    NonDicts \cup {D(<<>>)} \cup {D1("type", x) : x \in ScalarPool}
    \cup {D2("type", S(<<"A", "b">>), "address", x) : x \in {Null, N(7), S(<<" ", "a">>)}}
    \cup {D2("post_name", N(0), "post_code", x) : x \in {L(<<>>), S(<<"1">>)}}

AddrCore == {Null, D(<<>>), D1("type", S(<<"A", "b">>)), D1("type", N(5))}

AddressesPool == {Null, S(<<"a">>), D1("type", S(<<"a">>))} \cup {L(l) : l \in ListsOf(AddrElems, AddrCore)}

EduElems ==
    NonDicts \cup {D(<<>>)} \cup {D1("levels", x) : x \in ScalarPool}
    \cup {D2("levels", S(<<"P", "h", "D">>), "subject", x) : x \in {Null, N(7), S(<<"a", " ">>)}}
    \cup {D2("passing_year", N(5), "result", x) : x \in {B(FALSE), N(0)}}

EduCore == {S(<<"a">>), D(<<>>), D1("levels", S(<<"H", "S", "C">>)), D1("levels", L(<<N(1)>>))}

EducationPool == {Null, N(1), D1("levels", S(<<"a">>))} \cup {L(l) : l \in ListsOf(EduElems, EduCore)}

\* strings around the affirmative set of currently_working
CwStrings ==
    { <<"y","e","s">>, <<"Y","e","s">>, <<"Y","E","S">>, <<" ","y","e","s">>,
      <<"y","e","s"," ">>, <<"\t","y","e","s","\n">>, <<"t","r","u","e">>,
      <<"T","R","U","E">>, <<"T","r","u","e">>, <<"1">>, <<" ","1"," ">>,
      <<"n","o">>, <<"f","a","l","s","e">>, <<"0">>, <<"y">>, <<"y","e","s","s">>,
      <<"1","1">>, <<"y","e"," ","s">>, <<"o","n">> }

CwPool == ScalarPool \cup {S(s) : s \in CwStrings} \cup {N(1), N(2), L(<<N(0)>>)}

EmpElems ==
    NonDicts \cup {D(<<>>)} \cup {D1("currently_working", x) : x \in CwPool}
    \cup {D2("company_name", S(<<"a">>), "position", x) : x \in {Null, N(7), S(<<"B">>)}}

EmpCore ==
    {N(1), D(<<>>), D1("currently_working", S(<<"Y","e","s">>)),
     D2("company_name", N(0), "currently_working", N(1))}

EmploymentPool == {Null, S(<<"a">>), D1("currently_working", B(TRUE))} \cup {L(l) : l \in ListsOf(EmpElems, EmpCore)}

SkillStrings == Seqs({" ", "a"}, MaxStrLen) \cup { <<"\n", "a", "\t">>, <<"a", " ", "b">> }

NameVals ==
    {S(<<" ", "a", " ">>), S(<<" ">>), S(<<>>), Null, N(5), N(0), B(TRUE), B(FALSE),
     L(<<S(<<" ", "a">>)>>), L(<<>>), D1("x", N(1))}

SkillElems ==
    {S(s) : s \in SkillStrings} \cup {Null, N(1), B(TRUE), L(<<S(<<"a">>)>>)}
    \cup {D1("name", x) : x \in NameVals}
    \cup {D(<<>>), D1("label", S(<<"a">>)), D2("label", S(<<"a">>), "name", S(<<"b">>))}

SkillCore ==
    {S(<<" ", "a">>), S(<<"b">>), S(<<" ">>), N(1), D1("name", S(<<"c", " ">>)),
     D1("name", Null), D1("label", S(<<"a">>))}

SkillLists == ListsOf(SkillElems, SkillCore)

Python == <<"P","y","t","h","o","n">>
Teamwork == <<"T","e","a","m","w","o","r","k">>

\* the values of a skills category
CatVals ==
    {Null, S(<<"a">>), D1("name", S(<<"a">>))}
    \cup {L(l) : l \in Seqs({S(<<" ", "a">>), S(<<"b">>), S(<<" ">>), D1("name", S(<<"c">>))},
                            MaxListLen)}

SkillsPool ==
    {Null, S(<<"a">>), N(1)} \cup {L(l) : l \in SkillLists}
    \cup {D(<<>>)} \cup {D1("technical", x) : x \in CatVals}
    \cup {D2("technical", x, "soft", y) : x \in CatVals, y \in CatVals}
    \cup {D2("technical", L(<<S(Python)>>), "soft", L(<<S(Teamwork)>>)),
          D2("soft", L(<<S(Teamwork)>>), "technical", L(<<S(Python)>>))}

\* a mapping whose keys are the chosen ones among the five fields, in schema order
Mapping(u, a, e, m, s) ==
    D(SelectSeq(<< <<"user_info", u>>, <<"addresses", a>>, <<"academic_education", e>>,
                   <<"employment", m>>, <<"skills", s>> >>,
                LAMBDA p : p[2] # Absent))

CoarseUser == {Absent, Null, D1("name", S(<<"A", "b">>))}
CoarseAddr == {Absent, S(<<"a">>), L(<<D1("type", S(<<"A", "b">>))>>), L(<<D1("type", N(5))>>)}
CoarseEdu == {Absent, D(<<>>), L(<<D1("levels", S(<<"H", "S", "C">>))>>), L(<<D1("levels", B(TRUE))>>)}
CoarseEmp == {Absent, N(1), L(<<D1("currently_working", S(<<"Y", "e", "s">>))>>)}
CoarseSkills == {Absent, L(<<S(<<" ", "a">>), D1("name", S(<<"b">>))>>), D1("technical", L(<<S(<<"a">>)>>))}

Inputs ==
    \* not a mapping at all
    (ScalarPool \ {x \in ScalarPool : IsDict(x)})
    \* keys the normalizer does not know
    \cup {D1("personal_info", D1("name", S(<<"a">>))), D2("x", N(1), "skills", L(<<S(<<"a">>)>>))}
    \* one field in depth
    \cup {Mapping(u, Absent, Absent, Absent, Absent) : u \in UserInfoPool}
    \cup {Mapping(Absent, a, Absent, Absent, Absent) : a \in AddressesPool}
    \cup {Mapping(Absent, Absent, e, Absent, Absent) : e \in EducationPool}
    \cup {Mapping(Absent, Absent, Absent, m, Absent) : m \in EmploymentPool}
    \cup {Mapping(Absent, Absent, Absent, Absent, s) : s \in SkillsPool}
    \* every combination of present and absent fields
    \cup {Mapping(u, a, e, m, s) : u \in CoarseUser, a \in CoarseAddr, e \in CoarseEdu,
                                   m \in CoarseEmp, s \in CoarseSkills}

----------------------------------------------------------------------------
(* The worlds of a ResumeParser run: the arguments, the environment variables, the  *)
(* file, and what pdfplumber and the OpenAI SDK do                                  *)

JohnDoe == <<"J","o","h","n"," ","D","o","e">>
SoftwareEngineer == <<"S","o","f","t","w","a","r","e"," ","E","n","g","i","n","e","e","r">>
JohnDoeText == JohnDoe \o <<"\n">> \o SoftwareEngineer

\* what page.extract_text() gives for a page
PageTexts ==
    {Null, S(<<>>), S(JohnDoe), S(SoftwareEngineer), S(JohnDoeText),
     S(<<" ", "\n", "\n", "\n", "\n", " ", "a", "\t", " ", "b", " ">>)}

File(path, exists, open, errmsg, pages, has) ==
    [path |-> path, exists |-> exists, open |-> open, errmsg |-> errmsg, pages |-> pages,
     has_PDFException |-> has]

CvPdf == <<"c","v",".","p","d","f">>
CvPDF == <<"C","V",".","P","D","F">>
CvTxt == <<"c","v",".","t","x","t">>
EncryptedPdf == <<"E","n","c","r","y","p","t","e","d",".","p","d","f">>

\* messages of the exceptions of the PDF library
LibMessages ==
    { <<"b","a","d"," ","x","r","e","f">>,
      <<"I","n","c","o","r","r","e","c","t"," ","P","a","s","s","w","o","r","d">>,
      <<"f","i","l","e"," ","i","s"," ","e","n","c","r","y","p","t","e","d">> }

GoodFile == File(CvPdf, TRUE, "ok", <<>>, <<S(JohnDoeText), Null>>, TRUE)

Files ==
    {File(CvPdf, FALSE, "ok", <<>>, <<>>, TRUE)}
    \cup {File(path, TRUE, "ok", <<>>, pages, has) :
            path \in {CvPdf, EncryptedPdf}, pages \in Seqs(PageTexts, MaxPages), has \in BOOLEAN}
    \cup {File(path, TRUE, "ok", <<>>, <<S(JohnDoeText)>>, TRUE) : path \in {CvPDF, CvTxt}}
    \cup {File(CvPdf, TRUE, open, m, <<>>, has) :
            open \in {"PDFException", "Exception"}, m \in LibMessages, has \in BOOLEAN}

CoreFiles ==
    {GoodFile, File(CvPdf, FALSE, "ok", <<>>, <<>>, TRUE),
     File(CvPdf, TRUE, "ok", <<>>, <<Null>>, TRUE)}

World(provider, model, api_key, url, env_key, env_url, sdk, f) ==
    [provider |-> provider, model |-> model, api_key |-> api_key, ollama_base_url |-> url,
     env_api_key |-> env_key, env_base_url |-> env_url, sdk_rejects_missing_key |-> sdk,
     file |-> f]

Key == S(<<"s","k">>)
EnvKey == S(<<"s","k","-","e","n","v">>)
Url == S(<<"http://box:11434">>)
EnvUrl == S(<<"http://env:11434">>)
CustomModel == S(<<"m">>)

Configs(files) ==
    {World(OllamaName, m, Null, u, Null, eu, TRUE, f) :
        m \in {Null, CustomModel}, u \in {Null, Url}, eu \in {Null, EnvUrl}, f \in files}
    \cup {World(p, m, k, Null, ek, Null, sdk, f) :
        p \in {OpenAIName, <<"O","p","e","n","A","I">>}, m \in {Null, CustomModel},
        k \in {Null, EmptyStr, Key}, ek \in {Null, EmptyStr, EnvKey}, sdk \in BOOLEAN,
        f \in files}
    \cup {World(<<"c","l","a","u","d","e">>, Null, Null, Null, Null, Null, TRUE, f) : f \in files}

Worlds ==
    Configs(CoreFiles)
    \cup {World(OllamaName, Null, Null, Null, Null, Null, TRUE, f) : f \in Files}
    \cup {World(OpenAIName, Null, Key, Null, Null, Null, TRUE, f) : f \in Files}

\* the texts a model answers with
T_PersonalInfo == <<"{","\"","p","e","r","s","o","n","a","l","_","i","n","f","o","\"",":"," ","{","\"","n","a","m","e","\"",":"," ","\"","J","o","h","n"," ","D","o","e","\"","}","}">>
T_UserInfo == <<"{","\"","u","s","e","r","_","i","n","f","o","\"",":"," ","{","\"","n","a","m","e","\"",":"," ","\"","J","o","h","n"," ","D","o","e","\"","}","}">>
T_FencedJson == <<Backquote,Backquote,Backquote,"j","s","o","n","\n","{","\"","u","s","e","r","_","i","n","f","o","\"",":"," ","{","\"","n","a","m","e","\"",":"," ","\"","J","o","h","n"," ","D","o","e","\"","}","}","\n",Backquote,Backquote,Backquote>>
T_Fenced == <<Backquote,Backquote,Backquote,"\n","{","}","\n",Backquote,Backquote,Backquote>>
T_Prose == <<"S","u","r","e",":"," ","{","\"","s","k","i","l","l","s","\"",":"," ","[","\"","a","\"","]","}"," ","B","y","e">>
T_Truncated == <<"{","\"","u","s","e","r","_","i","n","f","o","\"",":"," ","{","\"","n","a","m","e","\"",":"," ","\"","J","o">>
T_TwoObjects == <<"{","\"","a","\"",":"," ","1","}"," ","{","\"","a","\"",":"," ","2","}">>
T_List == <<"[","1","]">>
T_NoJson == <<"I"," ","c","a","n","n","o","t"," ","h","e","l","p">>
T_Empty == <<>>
T_BadType == <<"{","\"","a","d","d","r","e","s","s","e","s","\"",":"," ","[","{","\"","t","y","p","e","\"",":"," ","5","}","]","}">>
T_OpenFence == <<Backquote,Backquote,Backquote,"j","s","o","n","\n","{","\"","a","\"",":"," ","1","}">>
T_FencedProse == <<Backquote,Backquote,Backquote,"j","s","o","n","\n","n","o"," ","j","s","o","n"," ","h","e","r","e","\n",Backquote,Backquote,Backquote>>

ResponseTexts ==
    {T_PersonalInfo, T_UserInfo, T_FencedJson, T_Fenced, T_Prose, T_Truncated, T_TwoObjects,
     T_List, T_NoJson, T_Empty, T_BadType, T_OpenFence, T_FencedProse}

ApiMessages == { <<"model not found">>, <<"rate limit">> }

\* what client.chat gives: a raise, or a response with message.content and response
OllamaReplies ==
    {[raised |-> TRUE, errmsg |-> m, content |-> Absent, response |-> Absent] : m \in ApiMessages}
    \cup {[raised |-> FALSE, errmsg |-> <<>>, content |-> c, response |-> r] :
            c \in {Absent, Null} \cup {S(t) : t \in ResponseTexts},
            r \in {Absent, S(T_UserInfo)}}

\* what client.chat.completions.create gives: a raise, or the contents of the choices
OpenAIReplies ==
    {[raised |-> TRUE, errmsg |-> m, choices |-> <<>>] : m \in ApiMessages}
    \cup {[raised |-> FALSE, errmsg |-> <<>>, choices |-> <<>>]}
    \cup {[raised |-> FALSE, errmsg |-> <<>>, choices |-> <<c>>] :
            c \in {Null} \cup {S(t) : t \in ResponseTexts}}

----------------------------------------------------------------------------
(* One run: ResumeParser(...) and then parse(pdf_path), step by step *)

NormIdle == data = Unset /\ normalized = Unset /\ renormalized = Unset /\ npc = "idle"

\* the variables of cli parse and of the functions applied alone, when not modelled
CliIdle == cpc = "idle" /\ echoed = <<>> /\ cli_written = Unset /\ cli_status = Unset

FnIdle ==
    /\ pdf = Unset /\ text_out = Unset /\ reply_text = Unset /\ fence_out = Unset
    /\ raw_text = Unset /\ cleaned = Unset /\ recleaned = Unset

\* the variables of parse_batch, when no batch is modelled
BatchIdle ==
    /\ argv = Unset /\ bpc = "idle" /\ parser = Unset /\ pdf_files = <<>> /\ idx = 0
    /\ successful = 0 /\ failed = 0 /\ attempted = <<>> /\ outcomes = <<>>
    /\ written = <<>> /\ exit_status = Unset

InitParse ==
    /\ world \in Worlds
    /\ extractor = Unset
    /\ ppc = "new"
    /\ resume_text = Unset
    /\ net = <<>>
    /\ json_text = Unset
    /\ extracted = Unset
    /\ result = Unset
    /\ NormIdle
    /\ BatchIdle
    /\ CliIdle
    /\ FnIdle

\* ResumeParser.__init__: a raise of the factory ends the run
Construct ==
    /\ ppc = "new"
    /\ extractor' = AIExtractorFactory_create(world)
    /\ IF IsRaise(extractor')
       THEN result' = extractor' /\ ppc' = "done"
       ELSE result' = result /\ ppc' = "constructed"
    /\ UNCHANGED <<world, resume_text, net, json_text, extracted, normVars, batchVars, cliVars, fnVars>>

\* parse, lines 52-64
ReadText ==
    /\ ppc = "constructed"
    /\ LET t == ParseText(world.file)
       IN IF IsRaise(t)
          THEN result' = t /\ ppc' = "done" /\ resume_text' = resume_text
          ELSE result' = result /\ ppc' = "have_text" /\ resume_text' = t
    /\ UNCHANGED <<world, extractor, net, json_text, extracted, normVars, batchVars, cliVars, fnVars>>

\* OllamaExtractor.extract, lines 38-42: the health probe
OllamaProbe ==
    /\ ppc = "have_text"
    /\ Val(extractor).kind = "ollama"
    /\ \E up \in BOOLEAN :
          /\ net' = Append(net, [req |-> "list", ok |-> up])
          /\ LET unavailable ==
                     OllamaUnavailable(extractor,
                                       _check_server_health(up, <<"Connection refused">>))
             IN IF IsRaise(unavailable)
                THEN extracted' = unavailable /\ ppc' = "extracted"
                ELSE extracted' = extracted /\ ppc' = "probed"
    /\ UNCHANGED <<world, extractor, resume_text, json_text, result, normVars, batchVars, cliVars, fnVars>>

\* OllamaExtractor.extract, lines 44-83: the chat request and the parse of its reply
OllamaChat ==
    /\ ppc = "probed"
    /\ \E reply \in OllamaReplies :
          /\ net' = Append(net, [req |-> "chat", ok |-> ~reply.raised])
          /\ extracted' = OllamaAfterChat(reply)
          /\ json_text' = IF reply.raised THEN Unset ELSE S(OllamaJsonText(reply))
    /\ ppc' = "extracted"
    /\ UNCHANGED <<world, extractor, resume_text, result, normVars, batchVars, cliVars, fnVars>>

\* OpenAIExtractor.extract, lines 38-39: no key, no request
OpenAIKeyCheck ==
    /\ ppc = "have_text"
    /\ Val(extractor).kind = "openai"
    /\ KeyMissing(extractor)
    /\ extracted' = OpenAIKeyRequired
    /\ ppc' = "extracted"
    /\ UNCHANGED <<world, extractor, resume_text, net, json_text, result, normVars, batchVars, cliVars, fnVars>>

\* OpenAIExtractor.extract, lines 41-69: the request and the parse of its reply
OpenAICreate ==
    /\ ppc = "have_text"
    /\ Val(extractor).kind = "openai"
    /\ ~KeyMissing(extractor)
    /\ \E reply \in OpenAIReplies :
          /\ net' = Append(net, [req |-> "chat.completions.create", ok |-> ~reply.raised])
          /\ extracted' = OpenAIAfterCreate(reply)
          /\ json_text' = IF ~reply.raised /\ reply.choices # <<>> /\ IsStr(reply.choices[1])
                          THEN reply.choices[1] ELSE Unset
    /\ ppc' = "extracted"
    /\ UNCHANGED <<world, extractor, resume_text, result, normVars, batchVars, cliVars, fnVars>>

\* parse, lines 66-75
Finish ==
    /\ ppc = "extracted"
    /\ result' = ParseAfterExtract(extracted)
    /\ ppc' = "done"
    /\ UNCHANGED <<world, extractor, resume_text, net, json_text, extracted, normVars, batchVars, cliVars, fnVars>>

NextParse ==
    \/ Construct
    \/ ReadText
    \/ OllamaProbe
    \/ OllamaChat
    \/ OpenAIKeyCheck
    \/ OpenAICreate
    \/ Finish

SpecParse == InitParse /\ [][NextParse]_vars

----------------------------------------------------------------------------
(* The normalizer applied to an input, and again to its own output *)

\* the variables of a ResumeParser run, when no run is modelled
ParseIdle ==
    /\ world = Unset /\ extractor = Unset /\ ppc = "idle" /\ resume_text = Unset
    /\ net = <<>> /\ json_text = Unset /\ extracted = Unset /\ result = Unset

InitNorm ==
    /\ data \in Inputs
    /\ normalized = Unset
    /\ renormalized = Unset
    /\ npc = "start"
    /\ ParseIdle
    /\ BatchIdle
    /\ CliIdle
    /\ FnIdle

\* normalized_data = self._normalize_output(structured_data)
Normalize ==
    /\ npc = "start"
    /\ normalized' = _normalize_output(data)
    /\ npc' = "normalized"
    /\ UNCHANGED <<data, renormalized, parseVars, batchVars, cliVars, fnVars>>

\* _normalize_output(_normalize_output(x)): a raise of the inner call propagates
Renormalize ==
    /\ npc = "normalized"
    /\ renormalized' = IF IsRaise(normalized) THEN normalized ELSE _normalize_output(normalized)
    /\ npc' = "renormalized"
    /\ UNCHANGED <<data, normalized, parseVars, batchVars, cliVars, fnVars>>

NextNorm == Normalize \/ Renormalize

SpecNorm == InitNorm /\ [][NextNorm]_vars

----------------------------------------------------------------------------
(* parse_batch (src/src/cli.py) *)

\* the entries a directory can hold: three PDF files and a file that is no PDF
Entry(i, stem, suffix, open, errmsg, pages) ==
    File(Digits(i) \o stem \o suffix, TRUE, open, errmsg, pages, TRUE)

EntryKinds == {"cv", "blank", "locked", "notes"}

EntryOf(i, kind) ==
    CASE kind = "cv" -> Entry(i, <<"-","c","v">>, <<".","p","d","f">>, "ok", <<>>,
                              <<S(JohnDoeText)>>)
      [] kind = "blank" -> Entry(i, <<"-","b","l","a","n","k">>, <<".","p","d","f">>, "ok",
                                 <<>>, <<Null>>)
      [] kind = "locked" -> Entry(i, <<"-","l","o","c","k","e","d">>, <<".","p","d","f">>,
                                  "Exception", <<"Incorrect Password">>, <<>>)
      [] OTHER -> Entry(i, <<"-","n","o","t","e","s">>, <<".","t","x","t">>, "ok", <<>>,
                        <<S(JohnDoeText)>>)

Directories ==
    UNION { {[i \in 1..n |-> EntryOf(i, kinds[i])] : kinds \in [1..n -> EntryKinds]} :
            n \in 0..MaxFiles }

\* the options --provider, --model, --api-key, --ollama-base-url and --output, the
\* environment, the directory, and whether output_dir.mkdir succeeds
Argv(provider, api_key, env_key, sdk, output, mkdir_ok, directory) ==
    [provider |-> provider, model |-> Null, api_key |-> api_key, ollama_base_url |-> Null,
     env_api_key |-> env_key, env_base_url |-> Null, sdk_rejects_missing_key |-> sdk,
     output |-> output, mkdir_ok |-> mkdir_ok, directory |-> directory]

Argvs ==
    {Argv(c[1], c[2], c[3], c[4], o[1], o[2], d) :
        c \in { <<OllamaName, Null, Null, TRUE>>, <<OpenAIName, Key, Null, TRUE>>,
                <<OpenAIName, Null, Null, TRUE>>, <<OpenAIName, Null, EmptyStr, TRUE>> },
        o \in { <<Null, TRUE>>, <<S(<<"o","u","t">>), TRUE>>, <<S(<<"o","u","t">>), FALSE>> },
        d \in Directories}

\* directory.glob("*.pdf"): the entries whose name ends in ".pdf", in directory order
Glob(directory) ==
    SelectSeq(directory, LAMBDA f : Len(f.path) >= 4
                                    /\ SubSeq(f.path, Len(f.path) - 3, Len(f.path))
                                         = <<".","p","d","f">>)

\* Path.stem of a bare file name
Stem(path) ==
    LET dot == RFind(path, <<".">>)
    IN IF dot <= 0 THEN path ELSE SubSeq(path, 1, dot)

\* pdf_file.stem + ".json"
OutputFilename(f) == Stem(f.path) \o <<".","j","s","o","n">>

\* AIExtractor.extract as one piece; run is what the provider does during the call
Extract(ex, run) ==
    IF Val(ex).kind = "ollama"
    THEN LET unavailable ==
                 OllamaUnavailable(ex, _check_server_health(run.up, <<"Connection refused">>))
         IN IF IsRaise(unavailable) THEN unavailable ELSE OllamaAfterChat(run.reply)
    ELSE IF KeyMissing(ex) THEN OpenAIKeyRequired
    ELSE OpenAIAfterCreate(run.reply)

\* ResumeParser.parse as one piece
Parse(ex, f, run) ==
    LET t == ParseText(f)
    IN IF IsRaise(t) THEN t ELSE ParseAfterExtract(Extract(ex, run))

\* what the provider can do during one call of parse
Runs(ex) ==
    IF Val(ex).kind = "ollama"
    THEN {[up |-> up, reply |-> [raised |-> FALSE, errmsg |-> <<>>, content |-> S(t),
                                 response |-> Absent]] :
             up \in BOOLEAN, t \in {T_UserInfo, T_NoJson, T_List}}
    ELSE {[up |-> TRUE, reply |-> [raised |-> FALSE, errmsg |-> <<>>, choices |-> <<S(t)>>]] :
             t \in {T_UserInfo, T_NoJson, T_List}}

\* a variant that leaves the loop at the first failure
Continue_Break(i, n) == n + 1

\* except Exception: ... continue: the position of the loop after a failure at i of n
Continue(i, n) == i + 1

InitBatch ==
    /\ argv \in Argvs
    /\ bpc = "start"
    /\ parser = Unset
    /\ pdf_files = <<>>
    /\ idx = 0
    /\ successful = 0
    /\ failed = 0
    /\ attempted = <<>>
    /\ outcomes = <<>>
    /\ written = <<>>
    /\ exit_status = Unset
    /\ NormIdle
    /\ ParseIdle
    /\ CliIdle
    /\ FnIdle

\* lines 146-169: with no PDF file, sys.exit(1); a raise of mkdir or of ResumeParser
\* is not caught and ends the process with status 1
BatchStart ==
    /\ bpc = "start"
    /\ pdf_files' = Glob(argv.directory)
    /\ LET made == pdf_files' # <<>> /\ (argv.output = Null \/ argv.mkdir_ok)
           created == IF made THEN AIExtractorFactory_create(argv) ELSE Unset
       IN /\ parser' = created
          /\ IF made /\ ~IsRaise(created)
             THEN bpc' = "loop" /\ idx' = 1 /\ exit_status' = exit_status
             ELSE bpc' = "exited" /\ idx' = idx /\ exit_status' = N(1)
    /\ UNCHANGED <<argv, successful, failed, attempted, outcomes, written, normVars, parseVars,
                   cliVars, fnVars>>

\* lines 171-190: one turn of the loop
BatchFile ==
    /\ bpc = "loop"
    /\ idx <= Len(pdf_files)
    /\ \E run \in Runs(parser), write_ok \in BOOLEAN :
          LET pdf_file == pdf_files[idx]
              parsed == Parse(parser, pdf_file, run)
          IN /\ attempted' = Append(attempted, pdf_file.path)
             /\ outcomes' = Append(outcomes, parsed)
             /\ IF ~IsRaise(parsed) /\ write_ok
                THEN /\ written' = Append(written, OutputFilename(pdf_file))
                     /\ successful' = successful + 1
                     /\ failed' = failed
                     /\ idx' = idx + 1
                ELSE /\ written' = written
                     /\ successful' = successful
                     /\ failed' = failed + 1
                     /\ idx' = Continue(idx, Len(pdf_files))
    /\ UNCHANGED <<argv, bpc, parser, pdf_files, exit_status, normVars, parseVars,
                   cliVars, fnVars>>

\* lines 192-195: the summary, and the return
BatchEnd ==
    /\ bpc = "loop"
    /\ idx > Len(pdf_files)
    /\ bpc' = "exited"
    /\ exit_status' = N(0)
    /\ UNCHANGED <<argv, parser, pdf_files, idx, successful, failed, attempted, outcomes,
                   written, normVars, parseVars,
                   cliVars, fnVars>>

NextBatch == BatchStart \/ BatchFile \/ BatchEnd

SpecBatch == InitBatch /\ [][NextBatch]_vars

----------------------------------------------------------------------------
(* The parse command of the CLI (src/src/cli.py) *)

\* what the provider can do during the one call of parser.parse: the request raises,
\* or the reply is a record, a text that is no JSON, or a JSON list
CliTexts == {T_UserInfo, T_NoJson, T_List}

CliRuns(ex) ==
    IF IsRaise(ex) THEN {[up |-> FALSE, reply |-> Null]}
    ELSE IF Val(ex).kind = "ollama"
    THEN {[up |-> up, reply |-> reply] :
             up \in BOOLEAN,
             reply \in {r \in OllamaReplies :
                           r.response = Absent
                           /\ (r.raised \/ r.content \in {S(t) : t \in CliTexts})}}
    ELSE {[up |-> TRUE, reply |-> reply] :
             reply \in {r \in OpenAIReplies :
                           r.raised \/ r.choices \in {<<S(t)>> : t \in CliTexts}}}

\* what output_path.write_text can do: return, or raise
Writes == {"ok", "PermissionError", "OSError"}

OutJson == <<"o","u","t",".","j","s","o","n">>

\* a variant whose last handler echoes and returns
CliHandlers_Returns(e) ==
    IF Cls(e) \in {"FileNotFoundError", "ValueError", "PermissionError"}
    THEN [echo |-> <<"Error: ">> \o Msg(e), status |-> N(1)]
    ELSE [echo |-> <<"Unexpected error: ">> \o Msg(e), status |-> N(0)]

\* the except clauses of parse, lines 90-101: the message echoed and the exit status
CliHandlers(e) ==
    IF Cls(e) \in {"FileNotFoundError", "ValueError", "PermissionError"}
    THEN [echo |-> <<"Error: ">> \o Msg(e), status |-> N(1)]
    ELSE [echo |-> <<"Unexpected error: ">> \o Msg(e), status |-> N(1)]

\* the worlds of the command: every configuration with the core files, and the two
\* default configurations with a file that is no PDF and with files that do not open
CliFiles ==
    {File(CvTxt, TRUE, "ok", <<>>, <<S(JohnDoeText)>>, TRUE)}
    \cup {File(CvPdf, TRUE, open, m, <<>>, TRUE) :
            open \in {"PDFException", "Exception"}, m \in LibMessages}

CliWorlds ==
    Configs(CoreFiles)
    \cup {World(OllamaName, Null, Null, Null, Null, Null, TRUE, f) : f \in CliFiles}
    \cup {World(OpenAIName, Null, Key, Null, Null, Null, TRUE, f) : f \in CliFiles}

InitCli ==
    /\ world \in CliWorlds
    /\ extractor = Unset /\ ppc = "idle" /\ resume_text = Unset /\ net = <<>>
    /\ json_text = Unset /\ extracted = Unset /\ result = Unset
    /\ cpc = "start"
    /\ echoed = <<>>
    /\ cli_written = Unset
    /\ cli_status = Unset
    /\ NormIdle
    /\ BatchIdle
    /\ FnIdle

\* the checks click makes before it calls parse: click.Path(exists=True) and
\* click.Choice(["ollama", "openai"], case_sensitive=False); a usage error exits with 2
CliArgs ==
    /\ cpc = "start"
    /\ IF ~world.file.exists \/ Lower(world.provider) \notin {OllamaName, OpenAIName}
       THEN /\ cpc' = "exited"
            /\ cli_status' = N(2)
            /\ echoed' = << <<"Error: Invalid value">> >>
       ELSE /\ cpc' = "running"
            /\ cli_status' = cli_status
            /\ echoed' = echoed
    /\ UNCHANGED <<cli_written, parseVars, normVars, batchVars, fnVars>>

\* parse, lines 69-101, from the outcome of the construction and of parser.parse on:
\* the messages echoed, the exit status and the file written
CliOutcome(created, parsed, write, output, pdf_file) ==
    LET output_path == IF Truthy(output) THEN Val(output)
                       ELSE Stem(pdf_file) \o <<".","j","s","o","n">>
        failure == IF IsRaise(parsed) THEN parsed
                   ELSE IF write # "ok"
                   THEN Raise(write, <<"Permission denied: ">> \o output_path)
                   ELSE Null
        parsing == IF IsRaise(created) THEN <<>>
                   ELSE << <<"Parsing resume: ">> \o pdf_file >>
    IN IF IsRaise(failure)
       THEN [echoed |-> parsing \o <<CliHandlers(failure).echo>>,
             status |-> CliHandlers(failure).status,
             written |-> Unset]
       ELSE [echoed |-> parsing \o << <<"Results saved to: ">> \o output_path >>,
             status |-> N(0),
             written |-> S(output_path)]

\* parse, lines 60-101
CliParse ==
    /\ cpc = "running"
    /\ \E created \in {AIExtractorFactory_create(world)} :
       \E run \in CliRuns(created) :
       \E parsed \in {IF IsRaise(created) THEN created ELSE Parse(created, world.file, run)} :
       \E write \in Writes, output \in {Null, S(OutJson)} :
       \E o \in {CliOutcome(created, parsed, write, output, world.file.path)} :
          /\ result' = parsed
          /\ echoed' = o.echoed
          /\ cli_status' = o.status
          /\ cli_written' = o.written
    /\ cpc' = "exited"
    /\ UNCHANGED <<world, extractor, ppc, resume_text, net, json_text, extracted, normVars,
                   batchVars, fnVars>>

NextCli == CliArgs \/ CliParse

SpecCli == InitCli /\ [][NextCli]_vars

----------------------------------------------------------------------------
(* PDFExtractor.extract_text applied to one file *)

InitPdf ==
    /\ pdf \in Files
    /\ text_out = Unset
    /\ reply_text = Unset /\ fence_out = Unset
    /\ raw_text = Unset /\ cleaned = Unset /\ recleaned = Unset
    /\ NormIdle
    /\ ParseIdle
    /\ BatchIdle
    /\ CliIdle

ExtractText ==
    /\ text_out = Unset
    /\ text_out' = extract_text(pdf)
    /\ UNCHANGED <<pdf, reply_text, fence_out, raw_text, cleaned, recleaned, normVars,
                   parseVars, batchVars, cliVars>>

NextPdf == ExtractText

SpecPdf == InitPdf /\ [][NextPdf]_vars

----------------------------------------------------------------------------
(* OllamaExtractor._extract_json_from_response applied to one response text *)

\* the pieces response texts are put together from
FenceTokens == {Fence, <<"j", "s", "o", "n">>, <<"{">>, <<"}">>, <<"x">>, <<" ">>}

RECURSIVE TokenTexts(_)
TokenTexts(n) ==
    IF n = 0 THEN {<<>>}
    ELSE TokenTexts(n - 1) \cup {t \o k : t \in TokenTexts(n - 1), k \in FenceTokens}

\* two blocks, the second one tagged: ``` x ``` ```json {} ```
T_TwoBlocks ==
    Fence \o <<" ", "x", " ">> \o Fence \o <<" ">> \o FenceJson \o <<" ", "{", "}", " ">> \o Fence

\* prose with a brace outside the block: {x ```json {} ``` }
T_BraceOutside ==
    <<"{", "x", " ">> \o FenceJson \o <<" ", "{", "}", " ">> \o Fence \o <<" ", "}">>

ReplyTexts ==
    TokenTexts(MaxTokens)
        \cup {T_FencedJson, T_Fenced, T_Prose, T_OpenFence, T_FencedProse, T_NoJson,
              T_TwoObjects, T_TwoBlocks, T_BraceOutside}

InitFence ==
    /\ reply_text \in {S(t) : t \in ReplyTexts}
    /\ fence_out = Unset
    /\ pdf = Unset /\ text_out = Unset
    /\ raw_text = Unset /\ cleaned = Unset /\ recleaned = Unset
    /\ NormIdle
    /\ ParseIdle
    /\ BatchIdle
    /\ CliIdle

ExtractJson ==
    /\ fence_out = Unset
    /\ fence_out' = S(_extract_json_from_response(Val(reply_text)))
    /\ UNCHANGED <<reply_text, pdf, text_out, raw_text, cleaned, recleaned, normVars,
                   parseVars, batchVars, cliVars>>

NextFence == ExtractJson

SpecFence == InitFence /\ [][NextFence]_vars

----------------------------------------------------------------------------
(* PDFExtractor._clean_text applied to one text, and to its own output *)

TextChars == {"a", " ", "\t", "\n"}

\* four newlines, five spaces, a tab and padded lines
T_Messy ==
    <<" ", "x", "\n", "\n", "\n", "\n", "y", " ", " ", " ", " ", " ", "z", "\t", "\n", " ">>

\* carriage returns and a form feed around the line breaks
T_Returns == <<"x", "\r", "\n", "\f", "\n", "\r", "\n", " ", "\n", "y", "\r">>

RawTexts == Seqs(TextChars, MaxTextLen) \cup {T_Messy, T_Returns, JohnDoeText}

InitClean ==
    /\ raw_text \in {S(t) : t \in RawTexts}
    /\ cleaned = Unset /\ recleaned = Unset
    /\ pdf = Unset /\ text_out = Unset
    /\ reply_text = Unset /\ fence_out = Unset
    /\ NormIdle
    /\ ParseIdle
    /\ BatchIdle
    /\ CliIdle

Clean ==
    /\ cleaned = Unset
    /\ cleaned' = S(_clean_text(Val(raw_text)))
    /\ UNCHANGED <<raw_text, recleaned, pdf, text_out, reply_text, fence_out, normVars,
                   parseVars, batchVars, cliVars>>

Reclean ==
    /\ cleaned # Unset /\ recleaned = Unset
    /\ recleaned' = S(_clean_text(Val(cleaned)))
    /\ UNCHANGED <<raw_text, cleaned, pdf, text_out, reply_text, fence_out, normVars,
                   parseVars, batchVars, cliVars>>

NextClean == Clean \/ Reclean

SpecClean == InitClean /\ [][NextClean]_vars

----------------------------------------------------------------------------
(* Claims about the normalizer, checked under SpecNorm *)

Returned == npc # "start" /\ ~IsRaise(normalized)

\* C1: normalization never raises: for every input, _normalize_output returns a
\* normalized record.  (Stated as the claim states it; the code raises
\* AttributeError on a non-mapping input and on a truthy non-string type / levels.)
C1_NeverRaises == npc # "start" => ~IsRaise(normalized)

\* C2: for any input x, including a non-mapping x, the comparison
\* _normalize_output(_normalize_output(x)) == _normalize_output(x) evaluates to true.
C2_Idempotent ==
    npc = "renormalized" => (~IsRaise(renormalized) /\ renormalized = normalized)

\* C2 (supporting): wherever the first call returns, the second call returns the
\* identical record.
C2_IdempotentWhereReturned ==
    (npc = "renormalized" /\ ~IsRaise(normalized)) => renormalized = normalized

TopLevelKeys == <<"user_info", "addresses", "academic_education", "employment", "skills">>

DefaultUserInfo ==
    D(<< <<"name", S(<<>>)>>, <<"date_of_birth", S(<<>>)>>, <<"gender", S(<<>>)>>,
         <<"email", S(<<>>)>>, <<"phone_number", S(<<>>)>> >>)

DefaultOf(k) == IF k = "user_info" THEN DefaultUserInfo ELSE L(<<>>)

EmploymentInputs ==
    LET e == Get(data, "employment", L(<<>>))
    IN IF IsList(e) THEN SelectSeq(Val(e), IsDict) ELSE <<>>

EmploymentOutputs == Val(Get(normalized, "employment", L(<<>>)))

CwIn(i) == Get(EmploymentInputs[i], "currently_working", Absent)
CwOut(i) == Get(EmploymentOutputs[i], "currently_working", Absent)

\* C4 as stated: currently_working is true exactly for the native true and for a
\* string equal, case-insensitively, to "yes", "true" or "1".
C4_AsStated ==
    Returned =>
        \A i \in 1..Len(EmploymentOutputs) :
            CwOut(i) = B(\/ CwIn(i) = B(TRUE)
                         \/ (IsStr(CwIn(i)) /\ Lower(Val(CwIn(i))) \in Affirmative))

\* r is s with its leading and trailing whitespace removed (stated without Strip)
IsTrimOf(r, s) ==
    \E i \in 1..(Len(s) + 1) : \E j \in 0..Len(s) :
        /\ r = SubSeq(s, i, j)
        /\ \A k \in 1..(i - 1) : s[k] \in Whitespace
        /\ \A k \in (j + 1)..Len(s) : s[k] \in Whitespace
        /\ (i <= j => (s[i] \notin Whitespace /\ s[j] \notin Whitespace))

SubStrings(s) == {SubSeq(s, i, j) : i \in 1..(Len(s) + 1), j \in 0..Len(s)}

\* the value currently_working is expected to take for the input value cw
AmendedCw(cw) ==
    CASE Tag(cw) = "str" ->
            \E r \in SubStrings(Val(cw)) : IsTrimOf(r, Val(cw)) /\ Lower(r) \in Affirmative
      [] Tag(cw) = "bool" -> Val(cw)
      [] Tag(cw) = "num" -> Val(cw) # 0
      [] Tag(cw) \in {"list", "dict"} -> Val(cw) # <<>>
      [] OTHER -> FALSE

\* C4 (amended): currently_working is a boolean; it is true exactly when the input
\* value is a string whose whitespace-trimmed form equals, case-insensitively,
\* "yes", "true" or "1", or a value that is not a string and is truthy (native true,
\* a non-zero number, a non-empty list or mapping); missing, null, false, zero, an
\* empty list or mapping and every other string give false.
C4_CurrentlyWorking ==
    Returned =>
        /\ Len(EmploymentOutputs) = Len(EmploymentInputs)
        /\ \A i \in 1..Len(EmploymentOutputs) : CwOut(i) = B(AmendedCw(CwIn(i)))

\* C4 witness: an entry whose currently_working is a padded, upper-case "yes" came
\* out true, next to one that came out false.
C4_Witness ==
    /\ Returned
    /\ \E i \in 1..Len(EmploymentOutputs) :
          IsStr(CwIn(i)) /\ Val(CwIn(i)) # Lower(Val(CwIn(i))) /\ CwOut(i) = B(TRUE)
    /\ \E i \in 1..Len(EmploymentOutputs) : CwOut(i) = B(FALSE)

SkillsInput == Get(data, "skills", L(<<>>))
SkillsOutput == Val(Get(normalized, "skills", L(<<>>)))

\* the value-lists of a mapping of categories, concatenated in the mapping's order
\* (a category whose value is not a list contributes nothing)
RECURSIVE CategoryConcat(_, _)
CategoryConcat(pairs, n) ==
    IF n = 0 THEN <<>>
    ELSE CategoryConcat(pairs, n - 1) \o (IF IsList(pairs[n][2]) THEN Val(pairs[n][2]) ELSE <<>>)

\* the elements skills normalization looks at
SkillSource ==
    CASE IsList(SkillsInput) -> Val(SkillsInput)
      [] IsDict(SkillsInput) -> CategoryConcat(Val(SkillsInput), Len(Val(SkillsInput)))
      [] OTHER -> <<>>

TrimOf(s) == CHOOSE r \in SubStrings(s) : IsTrimOf(r, s)

\* the text an element stands for: a bare string, or the "name" of a mapping that has
\* one (as text; nothing when it is null or falsy); no text for anything else
HasSkillText(e) == IsStr(e) \/ (IsDict(e) /\ HasKey(e, "name"))
SkillText(e) ==
    IF IsStr(e) THEN Val(e)
    ELSE LET nm == Get(e, "name", Null)
         IN IF ~Truthy(nm) THEN <<>> ELSE IF IsStr(nm) THEN Val(nm) ELSE PyRepr(nm)

RECURSIVE ExpectedSkills(_, _)
ExpectedSkills(src, n) ==
    IF n = 0 THEN <<>>
    ELSE ExpectedSkills(src, n - 1)
         \o (IF HasSkillText(src[n]) /\ TrimOf(SkillText(src[n])) # <<>>
             THEN <<S(TrimOf(SkillText(src[n])))>> ELSE <<>>)

\* C5: skills normalization returns a flat list of strings: the bare strings and the
\* names of the mappings with a "name" key, in order, of the skills list, or of the
\* concatenation of the category value-lists (labels discarded) when skills is a
\* mapping; every string trimmed, the strings empty after trimming dropped, so no
\* element is empty or has leading or trailing whitespace.
C5_SkillsFlat ==
    Returned =>
        /\ SkillsOutput = ExpectedSkills(SkillSource, Len(SkillSource))
        /\ \A i \in 1..Len(SkillsOutput) :
              LET x == SkillsOutput[i]
              IN /\ IsStr(x)
                 /\ Val(x) # <<>>
                 /\ Val(x)[1] \notin Whitespace
                 /\ Val(x)[Len(Val(x))] \notin Whitespace
        /\ SkillsInput = D2("technical", L(<<S(Python)>>), "soft", L(<<S(Teamwork)>>))
              => SkillsOutput = <<S(Python), S(Teamwork)>>

\* C5 witness: a mapping of two categories was flattened in order, one of its strings
\* trimmed and one dropped as empty.
C5_Witness ==
    /\ Returned
    /\ IsDict(SkillsInput) /\ Len(Val(SkillsInput)) = 2
    /\ \A i \in 1..2 : IsList(Val(SkillsInput)[i][2]) /\ Len(Val(Val(SkillsInput)[i][2])) = 2
    /\ Len(SkillsOutput) = 3
    /\ \E i \in 1..4 : IsStr(SkillSource[i]) /\ S(TrimOf(Val(SkillSource[i]))) # SkillSource[i]
                       /\ TrimOf(Val(SkillSource[i])) # <<>>

ListFields == {"addresses", "academic_education", "employment"}

\* the fixed sub-keys of the records of a list field, in the order of the record
SubKeys(f) ==
    CASE f = "addresses" -> <<"type", "address", "post_name", "post_code">>
      [] f = "academic_education" ->
            <<"levels", "subject", "board", "institute", "passing_year", "result">>
      [] f = "employment" ->
            <<"company_name", "company_type", "position", "joining_date", "leaving_date",
              "currently_working", "responsibility">>

\* the enumerated sub-fields, which are lower-cased after defaulting
Enumerated == {"type", "levels"}

\* the mapping elements of the input list of field f, in input order
KeptInputs(f) ==
    LET v == Get(data, f, L(<<>>))
    IN IF IsList(v) THEN SelectSeq(Val(v), IsDict) ELSE <<>>

\* the input value, or the empty string when it is missing, null or falsy
ValueOrEmpty(entry, k) ==
    IF HasKey(entry, k) /\ Truthy(Get(entry, k, Null)) THEN Get(entry, k, Null) ELSE EmptyStr

\* what the scalar sub-field k of a kept record is expected to hold
ExpectedScalar(entry, k) ==
    LET v == ValueOrEmpty(entry, k)
    IN IF k \in Enumerated /\ IsStr(v) THEN S(Lower(Val(v))) ELSE v

\* the list field f of the returned record is as C14 describes
ListFieldAsDescribed(f) ==
    LET out == Get(normalized, f, Absent)
        kept == KeptInputs(f)
    IN /\ IsList(out)
       /\ Len(Val(out)) = Len(kept)
       /\ \A i \in 1..Len(kept) :
             /\ IsDict(Val(out)[i])
             /\ Keys(Val(out)[i]) = SubKeys(f)
             /\ \A j \in 1..Len(SubKeys(f)) :
                   SubKeys(f)[j] # "currently_working"
                       => Val(Val(out)[i])[j][2] = ExpectedScalar(kept[i], SubKeys(f)[j])

\* C14: for each list-of-record field (addresses, academic_education, employment) of
\* a mapping input, a non-list value yields the empty list and a list yields one
\* normalized record per mapping element, in input order, non-mapping elements
\* dropped; each record has exactly the field's fixed sub-keys, each scalar sub-field
\* holding the input value (the enumerated ones lower-cased) or the empty string when
\* it is missing, null or falsy.
C14_ListFields ==
    (npc # "start" /\ IsDict(data)) =>
        /\ ~IsRaise(normalized)
        /\ \A f \in ListFields : ListFieldAsDescribed(f)

\* C14 (supporting): the same, wherever normalization returns.
C14_ListFieldsWhereReturned ==
    Returned => \A f \in ListFields : ListFieldAsDescribed(f)

\* C14 (supporting): a list with a non-mapping element and a mapping element that
\* lacks sub-keys was normalized.
C14_Reached ==
    /\ Returned
    /\ \E f \in ListFields :
          /\ IsList(Get(data, f, Null))
          /\ Len(KeptInputs(f)) >= 1
          /\ Len(KeptInputs(f)) < Len(Val(Get(data, f, Null)))

----------------------------------------------------------------------------
(* Claims about one run of ResumeParser.parse *)

\* d[k] of a mapping, Absent when d is no mapping or has no such key
Field(d, k) == IF IsDict(d) THEN Get(d, k, Absent) ELSE Absent

PersonalInfoOnly == D(<< <<"personal_info", D(<< <<"name", S(JohnDoe)>> >>)>> >>)

\* C6: when the text of the PDF is "John Doe\nSoftware Engineer" and the provider
\* returns {"personal_info": {"name": "John Doe"}}, parse returns a record with
\* personal_info.name == "John Doe", personal_info.email == "", work_experience == [],
\* education == [] and skills == {"technical": [], "soft": []}.
C6_EndToEnd ==
    (ppc = "done" /\ resume_text = S(JohnDoeText) /\ extracted = PersonalInfoOnly)
    => /\ Field(Field(result, "personal_info"), "name") = S(JohnDoe)
       /\ Field(Field(result, "personal_info"), "email") = EmptyStr
       /\ Field(result, "work_experience") = L(<<>>)
       /\ Field(result, "education") = L(<<>>)
       /\ Field(result, "skills") = D(<< <<"technical", L(<<>>)>>, <<"soft", L(<<>>)>> >>)

\* the 'invalid JSON' error of the two variants
InvalidJson(e, kind) ==
    /\ IsRaise(e)
    /\ Cls(e) = "ValueError"
    /\ Head(Msg(e)) = (IF kind = "ollama" THEN "Failed to parse JSON from Ollama response: "
                       ELSE "Failed to parse JSON from OpenAI response: ")

\* extract has handed a text to json.loads
Decoding == extracted # Unset /\ json_text # Unset

\* C7: in both variants, extract raises the 'invalid JSON' error exactly when the text
\* handed to json.loads does not decode, its other failures raise another error, and it
\* returns a value only when that text decoded completely, the value being the decoded one.
C7_InvalidJson ==
    extracted # Unset =>
       /\ (Decoding /\ IsRaise(JsonLoads(Val(json_text))))
             => InvalidJson(extracted, Val(extractor).kind)
       /\ (\E kind \in {"ollama", "openai"} : InvalidJson(extracted, kind))
             => (Decoding /\ IsRaise(JsonLoads(Val(json_text))))
       /\ ~IsRaise(extracted)
             => (Decoding /\ extracted = JsonLoads(Val(json_text)))

C7_Witness ==
    /\ json_text = S(T_Truncated)
    /\ Val(extractor).kind = "ollama"
    /\ InvalidJson(extracted, "ollama")

\* C8: a chat request is the second request of the call, after a probe that succeeded;
\* after a failed probe the call has ended with ConnectionError, which is not the class
\* of the error of a JSON parse failure, and no chat request has been sent.
C8_ProbeFirst ==
    /\ \A i \in 1..Len(net) :
          net[i].req = "chat" => (i = 2 /\ net[1].req = "list" /\ net[1].ok)
    /\ (net # <<>> /\ net[1].req = "list" /\ ~net[1].ok)
          => /\ Len(net) = 1
             /\ IsRaise(extracted)
             /\ Cls(extracted) = "ConnectionError"
             /\ ~InvalidJson(extracted, "ollama")
    /\ InvalidJson(extracted, "ollama") => Cls(extracted) # "ConnectionError"

C8_Witness ==
    /\ Len(net) = 1 /\ net[1].req = "list" /\ ~net[1].ok
    /\ ppc = "done"
    /\ Cls(extracted) = "ConnectionError"

\* neither the parameter nor the environment holds a key for the openai variant
NoCredential ==
    /\ ppc # "idle"
    /\ Lower(world.provider) = OpenAIName
    /\ ~Truthy(world.api_key)
    /\ ~Truthy(world.env_api_key)

ConfigurationError(e) ==
    \/ e = OpenAIKeyRequired
    \/ IsRaise(e) /\ Cls(e) = "OpenAIError"

\* C9: with the openai variant and no key in the parameter or the environment, no
\* request is ever sent; the constructor raises the SDK's missing-key error or extract
\* raises the key-required ValueError, never the extraction or invalid-JSON error, and
\* the error of parse carries the key-required message.
C9_FailFast ==
    NoCredential =>
       /\ net = <<>>
       /\ ppc # "probed"
       /\ IsRaise(extractor) => (ConfigurationError(extractor) /\ result = extractor)
       /\ extracted # Unset => extracted = OpenAIKeyRequired
       /\ (ppc = "done" /\ extracted # Unset)
             => (IsRaise(result) /\ Msg(result) = <<"Failed to extract information using AI: ">>
                                                    \o Msg(OpenAIKeyRequired))

C9_Witness ==
    /\ NoCredential
    /\ world.env_api_key = EmptyStr
    /\ ppc = "done"
    /\ extracted = OpenAIKeyRequired

\* extract_text fails on the file of the run as on a protected PDF
AppearsProtected ==
    /\ IsRaise(extract_text(world.file))
    /\ Cls(extract_text(world.file)) = "PermissionError"

\* C12: when extract_text fails because the PDF appears password-protected or encrypted,
\* ResumeParser.parse fails with PermissionError, not with the ValueError of the other
\* extraction failures.
C12_AccessDenied ==
    (ppc = "done" /\ ~IsRaise(extractor) /\ AppearsProtected)
       => (IsRaise(result) /\ Cls(result) = "PermissionError")

----------------------------------------------------------------------------
(* Claims about parse_batch, checked under SpecBatch *)

Names(files) == [j \in 1..Len(files) |-> files[j].path]

\* every file handed to the parser so far: each PDF file of the directory once, in order
AttemptedInSequence ==
    /\ pdf_files = Glob(argv.directory)
    /\ attempted = SubSeq(Names(pdf_files), 1, idx - 1)
    /\ Len(outcomes) = Len(attempted)

\* the outcome of a file is one that parse has for that file alone
Isolated ==
    \A j \in 1..Len(outcomes) :
        \E run \in Runs(parser) : outcomes[j] = Parse(parser, pdf_files[j], run)

\* an output file only for a file whose parse succeeded, at most one per file
OutputsOnlyOnSuccess ==
    /\ Len(written) = successful
    /\ \A k \in 1..Len(written) :
          \E j \in 1..Len(outcomes) :
              written[k] = OutputFilename(pdf_files[j]) /\ ~IsRaise(outcomes[j])
    /\ \A k, l \in 1..Len(written) : written[k] = written[l] => k = l

\* C10 as stated: for any directory, every PDF file is attempted once in sequence,
\* outputs exist only for successes, successful + failed is the number of PDF files,
\* and the process exits with status zero.
C10_AsStated ==
    bpc = "exited" =>
       /\ attempted = Names(Glob(argv.directory))
       /\ OutputsOnlyOnSuccess
       /\ successful + failed = Len(Glob(argv.directory))
       /\ exit_status = N(0)

\* C10 (amended): once a PDF file was found, the output directory made and the parser
\* constructed, the loop hands every PDF file to the parser once, in order, whatever the
\* earlier files did; an output file is written only for a file whose parse succeeded;
\* successful + failed counts the files attempted and, at the exit, all the PDF files;
\* the exit status is zero.  Otherwise the process exits with status 1 and no file
\* has been attempted.
C10_BatchCompletes ==
    /\ bpc = "loop" =>
          /\ pdf_files # <<>>
          /\ idx \in 1..(Len(pdf_files) + 1)
          /\ AttemptedInSequence
          /\ Isolated
          /\ OutputsOnlyOnSuccess
          /\ successful + failed = idx - 1
    /\ (bpc = "exited" /\ idx > 0) =>
          /\ attempted = Names(Glob(argv.directory))
          /\ Isolated
          /\ OutputsOnlyOnSuccess
          /\ successful + failed = Len(Glob(argv.directory))
          /\ exit_status = N(0)
    /\ (bpc = "exited" /\ idx = 0) =>
          /\ exit_status = N(1)
          /\ attempted = <<>>
          /\ written = <<>>
          /\ \/ Glob(argv.directory) = <<>>
             \/ argv.output # Null /\ ~argv.mkdir_ok
             \/ IsRaise(parser)

C10_Witness ==
    /\ bpc = "exited"
    /\ exit_status = N(0)
    /\ Len(pdf_files) = 2
    /\ IsRaise(outcomes[1])
    /\ ~IsRaise(outcomes[2])
    /\ successful = 1
    /\ failed = 1

----------------------------------------------------------------------------
(* Claims about the parse command of the CLI, checked under SpecCli *)

SavedEchoed == \E k \in 1..Len(echoed) : Head(echoed[k]) = "Results saved to: "

\* a step of the pipeline failed: click rejected the arguments, the construction or
\* parser.parse raised, or the result file was not written
PipelineFailed == result = Unset \/ IsRaise(result) \/ cli_written = Unset

\* C11: the parse command exits with a non-zero status on every failure of the pipeline
\* (arguments, construction, missing file, text extraction, AI extraction, permission,
\* normalization, file write), echoing no success; it echoes success and exits with zero
\* only when parser.parse returned a record and the result file was written.
C11_NonZeroOnFailure ==
    /\ cpc # "exited" => (~SavedEchoed /\ cli_status = Unset)
    /\ cpc = "exited" =>
          /\ cli_status \in {N(0), N(1), N(2)}
          /\ PipelineFailed => (cli_status # N(0) /\ ~SavedEchoed)
          /\ cli_status = N(0) =>
                (IsDict(result) /\ cli_written # Unset /\ SavedEchoed
                 /\ echoed[Len(echoed)] = <<"Results saved to: ">> \o Val(cli_written))
          /\ SavedEchoed => cli_written # Unset

C11_Witness ==
    /\ cpc = "exited"
    /\ IsRaise(result)
    /\ Cls(result) = "AttributeError"
    /\ cli_status = N(1)
    /\ Head(echoed[Len(echoed)]) = "Unexpected error: "

----------------------------------------------------------------------------
(* Claims about extract_text, checked under SpecPdf *)

\* the file exists, is named .pdf and opens, and no page of it gives any text
OpensWithoutText ==
    /\ pdf.exists
    /\ Lower(Suffix(pdf.path)) = <<".", "p", "d", "f">>
    /\ pdf.open = "ok"
    /\ \A k \in 1..Len(pdf.pages) : ~Truthy(pdf.pages[k])

\* C13: for every file path, extract_text raises ValueError, and no other kind of error,
\* when the file exists, has the .pdf extension and opens but gives no text on any page.
C13_NoTextIsValueError ==
    (text_out # Unset /\ OpensWithoutText)
       => (IsRaise(text_out) /\ Cls(text_out) = "ValueError")

----------------------------------------------------------------------------
(* Claims about _extract_json_from_response, checked under SpecFence *)

\* three backquotes start after the first i characters of s
FenceAt(s, i) ==
    /\ i + 3 <= Len(s)
    /\ \A k \in 1..3 : s[i + k] = Backquote

\* a fence tagged json starts after the first i characters of s
JsonFenceAt(s, i) ==
    /\ FenceAt(s, i)
    /\ i + 7 <= Len(s)
    /\ SubSeq(s, i + 4, i + 7) = <<"j", "s", "o", "n">>

\* the fence at i is closed at c: c is the first fence at or after the end of the
\* opener, which is w characters long
ClosedAt(s, i, w, c) ==
    /\ c >= i + w
    /\ FenceAt(s, c)
    /\ \A k \in (i + w)..(c - 1) : ~FenceAt(s, k)

\* the first fence of the text, with its tag when it has one
FirstFence(s, i, w) ==
    /\ FenceAt(s, i)
    /\ \A k \in 0..(i - 1) : ~FenceAt(s, k)
    /\ w = IF JsonFenceAt(s, i) THEN 7 ELSE 3

\* the first fence tagged json, or the first fence when no fence is tagged json
PreferredFence(s, i, w) ==
    IF \E k \in 0..Len(s) : JsonFenceAt(s, k)
    THEN JsonFenceAt(s, i) /\ w = 7 /\ \A k \in 0..(i - 1) : ~JsonFenceAt(s, k)
    ELSE FenceAt(s, i) /\ w = 3 /\ \A k \in 0..(i - 1) : ~FenceAt(s, k)

\* s[i..j] runs from the first "{" to the last "}"
OutermostBraces(s, i, j) ==
    /\ i \in 1..Len(s) /\ j \in 1..Len(s) /\ i < j
    /\ s[i] = "{" /\ \A k \in 1..(i - 1) : s[k] # "{"
    /\ s[j] = "}" /\ \A k \in (j + 1)..Len(s) : s[k] # "}"

\* out is what is returned for s when there is no fence pair
WithoutFences(s, out) ==
    IF \E i, j \in 1..Len(s) : OutermostBraces(s, i, j)
    THEN \E i, j \in 1..Len(s) : OutermostBraces(s, i, j) /\ out = SubSeq(s, i, j)
    ELSE IsTrimOf(out, s)

Widths == {3, 7}

\* C15 as stated: the first fence of the text, with its optional json tag, and its
\* closing fence are stripped and the trimmed text between them is returned; without
\* a complete fence pair the span from the first "{" to the last "}" is returned, and
\* without braces the trimmed text.
C15_AsStated ==
    fence_out # Unset =>
        LET s == Val(reply_text)
            out == Val(fence_out)
        IN IF \E i, c \in 0..Len(s) : \E w \in Widths :
                  FirstFence(s, i, w) /\ ClosedAt(s, i, w, c)
           THEN \E i, c \in 0..Len(s) : \E w \in Widths :
                  /\ FirstFence(s, i, w) /\ ClosedAt(s, i, w, c)
                  /\ IsTrimOf(out, SubSeq(s, i + w + 1, c))
           ELSE WithoutFences(s, out)

\* C15 (amended): the opening fence is the first fence tagged json when the text has
\* one, and otherwise the first fence; when another fence follows the opening fence,
\* the trimmed text between the two is returned.  When the opening fence is missing
\* or is not followed by a fence, the span from the first "{" to the last "}" is
\* returned if the first "{" comes before the last "}", and otherwise the trimmed
\* text.
C15_PreferredFence ==
    fence_out # Unset =>
        LET s == Val(reply_text)
            out == Val(fence_out)
        IN IF \E i, c \in 0..Len(s) : \E w \in Widths :
                  PreferredFence(s, i, w) /\ ClosedAt(s, i, w, c)
           THEN \E i, c \in 0..Len(s) : \E w \in Widths :
                  /\ PreferredFence(s, i, w) /\ ClosedAt(s, i, w, c)
                  /\ IsTrimOf(out, SubSeq(s, i + w + 1, c))
           ELSE WithoutFences(s, out)

\* C15 witness: a text whose first fence is untagged and whose later fence is tagged
\* json and closed gave the trimmed body of the tagged block, with braces left
\* outside the span untouched.
C15_Witness ==
    /\ fence_out = S(<<"{", "}">>)
    /\ \E i, j, c \in 0..Len(Val(reply_text)) :
          /\ FirstFence(Val(reply_text), i, 3)
          /\ i < j
          /\ PreferredFence(Val(reply_text), j, 7)
          /\ ClosedAt(Val(reply_text), j, 7, c)

----------------------------------------------------------------------------
(* Claims about _clean_text, checked under SpecClean *)

Blanks == {" ", "\t"}

\* s has n consecutive characters of cs somewhere
HasRun(s, cs, n) ==
    \E i \in 0..(Len(s) - n) : \A k \in 1..n : s[i + k] \in cs

\* some line of s begins or ends with a whitespace character
HasPaddedLine(s) ==
    \E i \in 1..Len(s) :
        /\ s[i] \in Whitespace /\ s[i] # "\n"
        /\ \/ i = 1 \/ s[i - 1] = "\n"
           \/ i = Len(s) \/ s[i + 1] = "\n"

\* s is two words with nothing but the characters of cs between them: the words
\* end after i characters and resume after j characters
Between(s, i, j, cs) ==
    /\ 0 < i /\ i < j /\ j < Len(s)
    /\ \A k \in 1..i : s[k] \notin Whitespace
    /\ \A k \in (i + 1)..j : s[k] \in cs
    /\ \A k \in (j + 1)..Len(s) : s[k] \notin Whitespace

\* the runs of a text that is two words and one run between them are rewritten as
\* stated: 3 or more newlines to two, spaces and tabs to one space, one or two
\* newlines to themselves
RunsRewritten(s, out) ==
    \A i, j \in 0..Len(s) :
        /\ (Between(s, i, j, {"\n"}) /\ j - i >= 3)
              => out = SubSeq(s, 1, i) \o <<"\n", "\n">> \o SubSeq(s, j + 1, Len(s))
        /\ (Between(s, i, j, {"\n"}) /\ j - i <= 2) => out = s
        /\ Between(s, i, j, Blanks)
              => out = SubSeq(s, 1, i) \o <<" ">> \o SubSeq(s, j + 1, Len(s))

\* C16: the output of _clean_text has no run of 3 or more newlines (a run of 3 or
\* more between two words becomes exactly 2), no run of 2 or more spaces or tabs (a
\* run between two words becomes one space, newlines are left as they are), no line
\* with leading or trailing whitespace and no two consecutive blank lines; cleaning
\* the output again returns it unchanged.
C16_Cleaned ==
    /\ cleaned # Unset =>
          /\ ~HasRun(Val(cleaned), {"\n"}, 3)
          /\ ~HasRun(Val(cleaned), Blanks, 2)
          /\ ~HasPaddedLine(Val(cleaned))
          /\ RunsRewritten(Val(raw_text), Val(cleaned))
    /\ recleaned # Unset => recleaned = cleaned

\* C16 witness: a text with a run of 3 or more newlines, a run of spaces and padded
\* lines was cleaned to a different text that keeps a paragraph break and a single
\* space, and was cleaned again.
C16_Witness ==
    /\ recleaned # Unset
    /\ HasRun(Val(raw_text), {"\n"}, 3)
    /\ HasRun(Val(raw_text), Blanks, 2)
    /\ HasPaddedLine(Val(raw_text))
    /\ cleaned # raw_text
    /\ HasRun(Val(cleaned), {"\n"}, 2)
    /\ HasRun(Val(cleaned), {" "}, 1)

====
